---- MODULE Spec2Model ----
(***************************************************************************)
(* Model of the bug tracker's data-access layer (services/database.ts) and *)
(* of the API layer that wraps it (services/api.ts).                       *)
(*                                                                         *)
(* The store is the browser's localStorage: the users, bugs and activity   *)
(* collections are ordered sequences of records, the session is a user     *)
(* snapshot plus a token.  Strings that the code inspects character by     *)
(* character (usernames, emails, passwords, titles, descriptions) are      *)
(* sequences of one-character strings; strings the code only compares      *)
(* (roles, statuses, priorities, error messages) are TLA+ strings.         *)
(* Identifiers are positive integers drawn from a fresh counter, which     *)
(* stands for generateId()'s timestamp-plus-random string.                 *)
(*                                                                         *)
(* Every API call awaits a timer and then runs synchronously to its        *)
(* return, so one call is one action; where calls overlap, making the call *)
(* is a second action that puts the call's timer in the queue inflight.    *)
(***************************************************************************)
EXTENDS Integers, Sequences, FiniteSets, TLC

VARIABLES version, users, bugs, activity, currentUser, token, now, nextId, notified,
          response, inflight

vars == <<version, users, bugs, activity, currentUser, token, now, nextId, notified,
          response, inflight>>

(***************************************************************************)
(* Bounds of the model.                                                    *)
(***************************************************************************)
MaxLog == 4

\* accounts registered in the session specifications
MaxAccounts == 2

\* identifiers issued in the session specifications
MaxId == 10

\* the clock advances by whole token lifetimes and by single milliseconds
MaxDays == 1

MaxMs == 1

\* log entries in the bug creation and the storage failure specifications
MaxCreate == 3

\* identifiers issued once the activity log has reached its limit
MaxAppend == 1

\* calls in flight at one time, and clock steps of 100 ms, in the specification of
\* calls in flight
MaxCalls == 2

MaxTicks == 3

(***************************************************************************)
(* null / undefined of the source; identifiers start at 1.                 *)
(***************************************************************************)
NULL == 0

Roles == {"admin", "developer", "tester"}

(***************************************************************************)
(* Characters and strings.                                                 *)
(***************************************************************************)
UpperChars == <<"A", "B", "C", "D", "E", "F", "G", "H", "I", "J", "K", "L", "M",
                "N", "O", "P", "Q", "R", "S", "T", "U", "V", "W", "X", "Y", "Z">>
LowerChars == <<"a", "b", "c", "d", "e", "f", "g", "h", "i", "j", "k", "l", "m",
                "n", "o", "p", "q", "r", "s", "t", "u", "v", "w", "x", "y", "z">>
DigitChars == <<"0", "1", "2", "3", "4", "5", "6", "7", "8", "9">>

Range(s) == {s[i] : i \in 1..Len(s)}

IndexOf(c, s) == CHOOSE i \in 1..Len(s) : s[i] = c

UpperSet == Range(UpperChars)
LowerSet == Range(LowerChars)
DigitSet == Range(DigitChars)

\* the lower-case letter of each upper-case letter
LowerOf == [c \in UpperSet |-> LowerChars[IndexOf(c, UpperChars)]]

\* String.prototype.toLowerCase on one character, then on a string
LowerChar(c) == IF c \in UpperSet THEN LowerOf[c] ELSE c

ToLowerCase(s) == [i \in 1..Len(s) |-> LowerChar(s[i])]

\* String.prototype.charCodeAt for the characters the model uses
CharCode(c) ==
    IF c \in UpperSet THEN 64 + IndexOf(c, UpperChars)
    ELSE IF c \in LowerSet THEN 96 + IndexOf(c, LowerChars)
    ELSE IF c \in DigitSet THEN 47 + IndexOf(c, DigitChars)
    ELSE IF c = " " THEN 32
    ELSE IF c = "." THEN 46
    ELSE IF c = "@" THEN 64
    ELSE IF c = "_" THEN 95
    ELSE 33

IsSpace(c) == c = " "

RECURSIVE TrimStart(_)
TrimStart(s) == IF s # <<>> /\ IsSpace(Head(s)) THEN TrimStart(Tail(s)) ELSE s

RECURSIVE TrimEnd(_)
TrimEnd(s) ==
    IF s # <<>> /\ IsSpace(s[Len(s)]) THEN TrimEnd(SubSeq(s, 1, Len(s) - 1)) ELSE s

\* String.prototype.trim
Trim(s) == TrimEnd(TrimStart(s))

(***************************************************************************)
(* 32-bit arithmetic of hashPassword.  A 32-bit word is a pair <<hi, lo>>  *)
(* of 16-bit halves.                                                       *)
(***************************************************************************)
Half == 65536

\* hash = ((hash << 5) - hash) + char; hash = hash & hash
HashStep(w, code) ==
    LET lo31 == w[2] * 31 + code
        hi31 == w[1] * 31 + lo31 \div Half
    IN  <<hi31 % Half, lo31 % Half>>

RECURSIVE HashLoop(_, _)
HashLoop(w, s) ==
    IF s = <<>> THEN w ELSE HashLoop(HashStep(w, CharCode(Head(s))), Tail(s))

\* Math.abs of the word read as a signed 32-bit integer
AbsWord(w) ==
    IF w[1] < Half \div 2 THEN w
    ELSE <<(Half - 1 - w[1] + (IF w[2] = 0 THEN 1 ELSE 0)) % Half, (Half - w[2]) % Half>>

\* `hashed_${abs(hash) in hex}_${length in hex}`, kept as its two numbers
hashPassword(password) ==
    [h |-> AbsWord(HashLoop(<<0, 0>>, password)), salt |-> Len(password)]

verifyPassword(password, hash) == hashPassword(password) = hash

(***************************************************************************)
(* The two regular expressions of createUser.                              *)
(***************************************************************************)
\* [^\s@]+
NoSpaceAt(s) == s # <<>> /\ \A i \in 1..Len(s) : ~IsSpace(s[i]) /\ s[i] # "@"

\* /^[^\s@]+@[^\s@]+\.[^\s@]+$/
emailRegex(s) ==
    \E i \in 1..Len(s) : \E j \in 1..Len(s) :
        /\ i < j
        /\ s[i] = "@"
        /\ s[j] = "."
        /\ NoSpaceAt(SubSeq(s, 1, i - 1))
        /\ NoSpaceAt(SubSeq(s, i + 1, j - 1))
        /\ NoSpaceAt(SubSeq(s, j + 1, Len(s)))

\* /^[a-zA-Z0-9_]+$/
usernameRegex(s) ==
    /\ s # <<>>
    /\ \A i \in 1..Len(s) :
          s[i] \in LowerSet \cup UpperSet \cup DigitSet \cup {"_"}

(***************************************************************************)
(* Reads of the store.                                                     *)
(***************************************************************************)
getUsers == users

getBugs == bugs

getActivityLogs == activity

\* Array.prototype.find: the first element that satisfies the test
HasUserId(id) == \E i \in 1..Len(users) : users[i].id = id

getUserById(id) ==
    users[CHOOSE i \in 1..Len(users) :
              users[i].id = id /\ \A j \in 1..(i - 1) : users[j].id # id]

\* getUserByUsername: the first user whose lower-cased username is the lower-cased argument
HasUsername(username) ==
    \E i \in 1..Len(users) : ToLowerCase(users[i].username) = ToLowerCase(username)

getUserByUsername(username) ==
    users[CHOOSE i \in 1..Len(users) :
              /\ ToLowerCase(users[i].username) = ToLowerCase(username)
              /\ \A j \in 1..(i - 1) :
                    ToLowerCase(users[j].username) # ToLowerCase(username)]

HasBugId(id) == \E i \in 1..Len(bugs) : bugs[i].id = id

findIndex(id) ==
    CHOOSE i \in 1..Len(bugs) :
        bugs[i].id = id /\ \A j \in 1..(i - 1) : bugs[j].id # id

getBugById(id) == bugs[findIndex(id)]

IsDeveloper(u) == u.role = "developer" \/ u.role = "admin"

getDevelopers == SelectSeq(users, IsDeveloper)

(***************************************************************************)
(* Writes of the store.                                                    *)
(***************************************************************************)
ACTIVITY_LIMIT == 100

\* the version marker this release expects; the store holds it, another one, or none
CURRENT_DB_VERSION == "2.0.0"

TOKEN_TTL == 86400000

\* mutant: the log is never cut
addActivityLog_NoLimit(logs, log, id) ==
    <<[id |-> id, action |-> log.action, bug_id |-> log.bug_id,
       bug_title |-> log.bug_title, user_id |-> log.user_id,
       user_name |-> log.user_name, timestamp |-> now]>> \o logs

\* logs.unshift(newLog); logs.slice(0, 100)
addActivityLog(logs, log, id) ==
    LET newLog == [id |-> id, action |-> log.action, bug_id |-> log.bug_id,
                   bug_title |-> log.bug_title, user_id |-> log.user_id,
                   user_name |-> log.user_name, timestamp |-> now]
        all == <<newLog>> \o logs
    IN  SubSeq(all, 1, IF Len(all) < ACTIVITY_LIMIT THEN Len(all) ELSE ACTIVITY_LIMIT)

\* the message of the error createUser throws, "" when it throws none
\* mutant: usernames and emails are compared as written
createUserError_CaseSensitive(username, email, password) ==
    IF \E i \in 1..Len(users) : users[i].username = username
    THEN "Username already exists"
    ELSE IF \E i \in 1..Len(users) : users[i].email = email
    THEN "Email already registered"
    ELSE IF ~emailRegex(email) THEN "Please enter a valid email address"
    ELSE IF Len(password) < 6 THEN "Password must be at least 6 characters"
    ELSE IF Len(username) < 3 THEN "Username must be at least 3 characters"
    ELSE IF ~usernameRegex(username)
    THEN "Username can only contain letters, numbers, and underscores"
    ELSE ""

\* mutant: the email format is not checked
createUserError_AnyEmail(username, email, password) ==
    IF \E i \in 1..Len(users) : ToLowerCase(users[i].username) = ToLowerCase(username)
    THEN "Username already exists"
    ELSE IF \E i \in 1..Len(users) : ToLowerCase(users[i].email) = ToLowerCase(email)
    THEN "Email already registered"
    ELSE IF Len(password) < 6 THEN "Password must be at least 6 characters"
    ELSE IF Len(username) < 3 THEN "Username must be at least 3 characters"
    ELSE IF ~usernameRegex(username)
    THEN "Username can only contain letters, numbers, and underscores"
    ELSE ""

createUserError(username, email, password) ==
    IF \E i \in 1..Len(users) : ToLowerCase(users[i].username) = ToLowerCase(username)
    THEN "Username already exists"
    ELSE IF \E i \in 1..Len(users) : ToLowerCase(users[i].email) = ToLowerCase(email)
    THEN "Email already registered"
    ELSE IF ~emailRegex(email) THEN "Please enter a valid email address"
    ELSE IF Len(password) < 6 THEN "Password must be at least 6 characters"
    ELSE IF Len(username) < 3 THEN "Username must be at least 3 characters"
    ELSE IF ~usernameRegex(username)
    THEN "Username can only contain letters, numbers, and underscores"
    ELSE ""

newUser(username, email, password, role, id) ==
    [id |-> id, username |-> username, email |-> email,
     password_hash |-> hashPassword(password), role |-> role, created_at |-> now]

\* the session snapshot: the user without password_hash
safeUser(user) ==
    [id |-> user.id, username |-> user.username, email |-> user.email,
     role |-> user.role, created_at |-> user.created_at]

\* One dot-separated part of a token.  json is what JSON.parse(atob(part)) gives:
\* "object", "null", or "none" when the part does not decode; userId, exp and iat
\* are the fields of a decoded object, <<>> when the object has no such field; raw
\* is the text of a part that is not an encoding.
TokenPart(json, userId, exp, iat, raw) ==
    [json |-> json, userId |-> userId, exp |-> exp, iat |-> iat, raw |-> raw]

\* `${btoa(header)}.${btoa(payload)}.${signature}`, as the sequence of its parts
generateToken(userId, signature) ==
    << TokenPart("object", <<>>, <<>>, <<>>, 0),
       TokenPart("object", <<userId>>, <<now + TOKEN_TTL>>, <<now>>, 0),
       TokenPart("none", <<>>, <<>>, <<>>, signature) >>

\* token.split('.'), JSON.parse(atob(parts[1])), payload.exp < Date.now(); a part
\* that does not decode and the property read on null both throw into the catch;
\* undefined < Date.now() is false
verifyToken(t) ==
    IF Len(t) # 3 THEN [valid |-> FALSE, userId |-> <<>>]
    ELSE IF t[2].json \in {"none", "null"} THEN [valid |-> FALSE, userId |-> <<>>]
    ELSE IF t[2].exp # <<>> /\ t[2].exp[1] < now THEN [valid |-> FALSE, userId |-> <<>>]
    ELSE [valid |-> TRUE, userId |-> t[2].userId]

\* users.filter(u => u.id !== id)
deleteUser(id) == SelectSeq(users, LAMBDA u : u.id # id)

\* the message of the error createBug throws, "" when it throws none
\* mutant: the lengths are checked before trimming
createBugError_Untrimmed(bug) ==
    IF bug.title = <<>> \/ Len(bug.title) < 3
    THEN "Bug title must be at least 3 characters"
    ELSE IF bug.description = <<>> \/ Len(bug.description) < 10
    THEN "Bug description must be at least 10 characters"
    ELSE ""

createBugError(bug) ==
    IF bug.title = <<>> \/ Len(Trim(bug.title)) < 3
    THEN "Bug title must be at least 3 characters"
    ELSE IF bug.description = <<>> \/ Len(Trim(bug.description)) < 10
    THEN "Bug description must be at least 10 characters"
    ELSE ""

newBug(bug, id) ==
    [id |-> id, title |-> Trim(bug.title), description |-> Trim(bug.description),
     priority |-> bug.priority, status |-> bug.status, created_by |-> bug.created_by,
     assigned_to |-> bug.assigned_to, created_at |-> now, updated_at |-> now]

\* mutant: a supplied updated_at wins over the clock
mergeBug_SuppliedStamp(bug, updates) ==
    [f \in DOMAIN bug |->
        IF f \in DOMAIN updates THEN updates[f]
        ELSE IF f = "updated_at" THEN now
        ELSE bug[f]]

\* mutant: the title and the description are trimmed on update as they are on create
mergeBug_Trimmed(bug, updates) ==
    [f \in DOMAIN bug |->
        IF f = "updated_at" THEN now
        ELSE IF f \in DOMAIN updates
        THEN (IF f \in {"title", "description"} THEN Trim(updates[f]) ELSE updates[f])
        ELSE bug[f]]

\* { ...bugs[index], ...updates, updated_at: now }
mergeBug(bug, updates) ==
    [f \in DOMAIN bug |->
        IF f = "updated_at" THEN now
        ELSE IF f \in DOMAIN updates THEN updates[f]
        ELSE bug[f]]

\* db.updateBug for an id that is present: the collection, and the bug returned
updateBug(id, updates) ==
    [bugs EXCEPT ![findIndex(id)] = mergeBug(bugs[findIndex(id)], updates)]

updatedBug(id, updates) == mergeBug(bugs[findIndex(id)], updates)

\* bugs.filter(b => b.id !== id)
deleteBug(id) == SelectSeq(bugs, LAMBDA b : b.id # id)

(***************************************************************************)
(* The result an API call returns to its caller, with the call it answers. *)
(***************************************************************************)
ApiResponse(op, success, error) == [op |-> op, success |-> success, error |-> error]

\* { success: true, data }
ApiData(op, data) == [op |-> op, success |-> TRUE, error |-> "", data |-> data]

UserIds == {users[i].id : i \in 1..Len(users)}

BugIds == {bugs[i].id : i \in 1..Len(bugs)}

Init ==
    /\ inflight = <<>>
    /\ version = <<CURRENT_DB_VERSION>>
    /\ users = <<>>
    /\ bugs = <<>>
    /\ activity = <<>>
    /\ currentUser = <<>>
    /\ token = <<>>
    /\ now = 0
    /\ nextId = 1
    /\ notified = {}
    /\ response = ApiResponse("none", TRUE, "")

(***************************************************************************)
(* initializeDatabase, run when the application loads.                     *)
(***************************************************************************)
\* mutant: the reset leaves the session entries in the store
Startup_KeepsSession ==
    /\ IF version # <<CURRENT_DB_VERSION>>
       THEN /\ users' = <<>>
            /\ bugs' = <<>>
            /\ activity' = <<>>
            /\ version' = <<CURRENT_DB_VERSION>>
            /\ UNCHANGED <<currentUser, token>>
       ELSE UNCHANGED <<version, users, bugs, activity, currentUser, token>>
    /\ UNCHANGED <<now, nextId, notified, response, inflight>>

\* every key of DB_KEYS is removed, the three collections are set to [] and the
\* marker to the expected version; nothing happens when the marker is the expected one
Startup ==
    /\ IF version # <<CURRENT_DB_VERSION>>
       THEN /\ users' = <<>>
            /\ bugs' = <<>>
            /\ activity' = <<>>
            /\ currentUser' = <<>>
            /\ token' = <<>>
            /\ version' = <<CURRENT_DB_VERSION>>
       ELSE UNCHANGED <<version, users, bugs, activity, currentUser, token>>
    /\ UNCHANGED <<now, nextId, notified, response, inflight>>

(***************************************************************************)
(* authApi.register: createUser, generateToken, setCurrentUser.            *)
(***************************************************************************)
Register(username, email, password, role) ==
    LET error == createUserError(username, email, password)
        user == newUser(username, email, password, role, nextId)
    IN  IF error # ""
        THEN /\ response' = ApiResponse("register", FALSE, error)
             /\ notified' = {}
             /\ UNCHANGED <<inflight, version, users, bugs, activity, currentUser, token, now, nextId>>
        ELSE /\ response' = ApiData("register", [user |-> user,
                                                   token |-> generateToken(user.id, nextId + 2)])
             /\ users' = Append(users, user)
             /\ activity' = addActivityLog(activity,
                                [action |-> "user_registered", bug_id |-> NULL,
                                 bug_title |-> <<>>, user_id |-> user.id,
                                 user_name |-> username], nextId + 1)
             /\ token' = <<generateToken(user.id, nextId + 2)>>
             /\ currentUser' = <<safeUser(user)>>
             /\ nextId' = nextId + 3
             /\ notified' = {}
             /\ UNCHANGED <<inflight, version, bugs, now>>

(***************************************************************************)
(* authApi.login, authApi.logout, authApi.getCurrentUser                   *)
(***************************************************************************)
\* mutant: login looks the username up as it is written
loginError_CaseSensitive(username, password) ==
    IF ~\E i \in 1..Len(users) : users[i].username = username
    THEN "Invalid username or password"
    ELSE IF ~verifyPassword(password, getUserByUsername(username).password_hash)
    THEN "Invalid username or password"
    ELSE ""

loginError(username, password) ==
    IF ~HasUsername(username) THEN "Invalid username or password"
    ELSE IF ~verifyPassword(password, getUserByUsername(username).password_hash)
    THEN "Invalid username or password"
    ELSE ""

Login(username, password) ==
    LET error == loginError(username, password)
        user == getUserByUsername(username)
        tok == generateToken(user.id, nextId)
    IN  IF error # ""
        THEN /\ response' = ApiResponse("login", FALSE, error)
             /\ notified' = {}
             /\ UNCHANGED <<inflight, version, users, bugs, activity, currentUser, token, now, nextId>>
        ELSE /\ response' = ApiData("login", [user |-> user, token |-> tok])
             /\ currentUser' = <<safeUser(user)>>
             /\ token' = <<tok>>
             /\ nextId' = nextId + 1
             /\ notified' = {}
             /\ UNCHANGED <<inflight, version, users, bugs, activity, now>>

\* mutant: logout removes the session user and leaves the token
Logout_KeepsToken ==
    /\ currentUser' = <<>>
    /\ notified' = {}
    /\ response' = ApiResponse("logout", TRUE, "")
    /\ UNCHANGED <<inflight, version, users, bugs, activity, token, now, nextId>>

\* clearCurrentUser
Logout ==
    /\ currentUser' = <<>>
    /\ token' = <<>>
    /\ notified' = {}
    /\ response' = ApiResponse("logout", TRUE, "")
    /\ UNCHANGED <<inflight, version, users, bugs, activity, now, nextId>>

\* the error getCurrentUser returns, "" when it returns the user
getCurrentUserError ==
    IF currentUser = <<>> \/ token = <<>> THEN "Not authenticated"
    ELSE IF ~verifyToken(token[1]).valid THEN "Session expired"
    ELSE IF \/ verifyToken(token[1]).userId = <<>>
            \/ ~HasUserId(verifyToken(token[1]).userId[1])
    THEN "User not found"
    ELSE ""

GetCurrentUser ==
    LET error == getCurrentUserError
    IN  /\ response' = IF error = ""
                       THEN ApiData("getCurrentUser",
                                    getUserById(verifyToken(token[1]).userId[1]))
                       ELSE ApiResponse("getCurrentUser", FALSE, error)
        /\ IF error \in {"Session expired", "User not found"}
           THEN currentUser' = <<>> /\ token' = <<>>
           ELSE UNCHANGED <<currentUser, token>>
        /\ notified' = {}
        /\ UNCHANGED <<inflight, version, users, bugs, activity, now, nextId>>

(***************************************************************************)
(* usersApi.getAll, usersApi.getDevelopers, usersApi.getById               *)
(***************************************************************************)
\* the empty string that replaces password_hash; no password hashes to it
emptyHash == [h |-> <<0, 0>>, salt |-> 0 - 1]

\* { ...u, password_hash: '' }
blankHash(u) == [u EXCEPT !.password_hash = emptyHash]

GetAll ==
    /\ response' = ApiData("getAll", [i \in 1..Len(users) |-> blankHash(users[i])])
    /\ notified' = {}
    /\ UNCHANGED <<inflight, version, users, bugs, activity, currentUser, token, now, nextId>>

GetDevelopers ==
    /\ response' = ApiData("getDevelopers",
                           [i \in 1..Len(getDevelopers) |-> blankHash(getDevelopers[i])])
    /\ notified' = {}
    /\ UNCHANGED <<inflight, version, users, bugs, activity, currentUser, token, now, nextId>>

GetById(id) ==
    /\ response' = IF HasUserId(id)
                   THEN ApiData("getById", blankHash(getUserById(id)))
                   ELSE ApiResponse("getById", FALSE, "User not found")
    /\ notified' = {}
    /\ UNCHANGED <<inflight, version, users, bugs, activity, currentUser, token, now, nextId>>

(***************************************************************************)
(* The clock: Date.now() d milliseconds later.                             *)
(***************************************************************************)
Tick(d) ==
    /\ now' = now + d
    /\ UNCHANGED <<inflight, version, users, bugs, activity, currentUser, token, nextId, notified, response>>

(***************************************************************************)
(* usersApi.delete                                                         *)
(***************************************************************************)
\* mutant: an admin may delete the admin's own account
deleteUserError_SelfDelete(id, actor) ==
    IF actor.role # "admin" THEN "Only admins can delete users"
    ELSE IF Len(deleteUser(id)) = Len(users) THEN "User not found"
    ELSE ""

deleteUserError(id, actor) ==
    IF actor.role # "admin" THEN "Only admins can delete users"
    ELSE IF actor.id = id THEN "Cannot delete your own account"
    ELSE IF Len(deleteUser(id)) = Len(users) THEN "User not found"
    ELSE ""

DeleteUser(id, actor) ==
    LET error == deleteUserError(id, actor)
    IN  /\ users' = IF error = "" THEN deleteUser(id) ELSE users
        /\ notified' = {}
        /\ response' = ApiResponse("deleteUser", error = "", error)
        /\ UNCHANGED <<inflight, version, bugs, activity, currentUser, token, now, nextId>>

(***************************************************************************)
(* bugsApi.create                                                          *)
(***************************************************************************)
\* mutant: the creator is notified too
bugCreatedNotices_AllAdmins(bug, actor) ==
    IF bug.priority = "critical" \/ bug.priority = "high"
    THEN {[to |-> users[i].id, kind |-> "created"] :
             i \in {j \in 1..Len(users) : users[j].role = "admin" /\ users[j].email # <<>>}}
    ELSE {}

\* the notifications bugsApi.create sends: to every admin but the caller, for a bug of
\* critical or high priority
bugCreatedNotices(bug, actor) ==
    LET admins == {users[i] : i \in {j \in 1..Len(users) :
                                        users[j].role = "admin" /\ users[j].id # actor.id}}
    IN  IF bug.priority = "critical" \/ bug.priority = "high"
        THEN {[to |-> a.id, kind |-> "created"] : a \in {x \in admins : x.email # <<>>}}
        ELSE {}

\* sendBugNotification for one notification: it is delivered or it fails, and either
\* way only the notification knows
Deliver(n, ok) ==
    /\ n \in notified
    /\ "sent" \notin DOMAIN n
    /\ notified' = (notified \ {n}) \cup {[to |-> n.to, kind |-> n.kind, sent |-> ok]}
    /\ UNCHANGED <<inflight, version, users, bugs, activity, currentUser, token, now, nextId,
                   response>>

CreateBug(bugData, actor) ==
    LET error == createBugError(bugData)
        bug == newBug(bugData, nextId)
    IN  IF error # ""
        THEN /\ response' = ApiResponse("create", FALSE, error)
             /\ notified' = {}
             /\ UNCHANGED <<inflight, version, users, bugs, activity, currentUser, token, now, nextId>>
        ELSE /\ response' = ApiResponse("create", TRUE, "")
             /\ bugs' = Append(bugs, bug)
             /\ activity' = addActivityLog(activity,
                                [action |-> "created", bug_id |-> bug.id,
                                 bug_title |-> bug.title, user_id |-> actor.id,
                                 user_name |-> actor.username], nextId + 1)
             /\ nextId' = nextId + 2
             /\ notified' = bugCreatedNotices(bug, actor)
             /\ UNCHANGED <<inflight, version, users, currentUser, token, now>>

\* mutant: the entry names the bug and not the caller
bugLog_NoCaller(action, bug_id, bug_title, actor) ==
    [action |-> action, bug_id |-> bug_id, bug_title |-> bug_title,
     user_id |-> NULL, user_name |-> <<>>]

\* the activity entry the bug endpoints write
bugLog(action, bug_id, bug_title, actor) ==
    [action |-> action, bug_id |-> bug_id, bug_title |-> bug_title,
     user_id |-> actor.id, user_name |-> actor.username]

(***************************************************************************)
(* bugsApi.update                                                          *)
(***************************************************************************)
updateError(id, actor) ==
    IF ~HasBugId(id) THEN "Bug not found"
    ELSE IF actor.role = "tester" /\ actor.id # getBugById(id).created_by
    THEN "Testers can only edit bugs they created"
    ELSE ""

Update(id, updates, actor) ==
    LET error == updateError(id, actor)
        bug == updatedBug(id, updates)
    IN  IF error # ""
        THEN /\ response' = ApiResponse("update", FALSE, error)
             /\ notified' = {}
             /\ UNCHANGED <<inflight, version, users, bugs, activity, currentUser, token, now, nextId>>
        ELSE /\ response' = ApiResponse("update", TRUE, "")
             /\ bugs' = updateBug(id, updates)
             /\ activity' = addActivityLog(activity,
                                bugLog("updated", bug.id, bug.title, actor), nextId)
             /\ nextId' = nextId + 1
             /\ notified' = {}
             /\ UNCHANGED <<inflight, version, users, currentUser, token, now>>

(***************************************************************************)
(* Calls in flight.  bugsApi.updateStatus and bugsApi.assign start with    *)
(* `await new Promise(r => setTimeout(r, 200))`: the call registers a      *)
(* timer and returns to the event loop holding only its arguments; when    *)
(* the timer fires the rest of the call runs to its return.  inflight is   *)
(* the timer queue, in the order the timers fire.                          *)
(***************************************************************************)
UPDATE_DELAY == 200

StatusCall(id, status, actor) ==
    [op |-> "updateStatus", id |-> id, status |-> status, actor |-> actor]

AssignCall(id, developerId, actor) ==
    [op |-> "assign", id |-> id, developerId |-> developerId, actor |-> actor]

\* setTimeout: timers fire by due time, timers of one due time in the order they
\* were registered
setTimeout(call, delay) ==
    LET due == now + delay
        before == SelectSeq(inflight, LAMBDA t : t.due <= due)
        after == SelectSeq(inflight, LAMBDA t : t.due > due)
    IN  before \o <<[call |-> call, due |-> due]>> \o after

\* the timer queue once the call has run: a call run from its timer leaves the queue
Settled(call) ==
    IF inflight # <<>> /\ Head(inflight).call = call THEN Tail(inflight) ELSE inflight

\* mutant: the call looks the bug up and checks the permission before its delay
CallUpdateStatus_ChecksFirst(id, status, actor) ==
    /\ IF HasBugId(id) /\ status = "closed" /\ actor.role = "developer"
          /\ getBugById(id).assigned_to # actor.id
       THEN /\ response' = ApiResponse("updateStatus", FALSE,
                                       "Only the assigned developer can close this bug")
            /\ UNCHANGED inflight
       ELSE /\ inflight' = setTimeout(StatusCall(id, status, actor), UPDATE_DELAY)
            /\ UNCHANGED response
    /\ UNCHANGED <<version, users, bugs, activity, currentUser, token, now, nextId, notified>>

\* bugsApi.updateStatus up to its await
CallUpdateStatus(id, status, actor) ==
    /\ inflight' = setTimeout(StatusCall(id, status, actor), UPDATE_DELAY)
    /\ UNCHANGED <<version, users, bugs, activity, currentUser, token, now, nextId, notified,
                   response>>

\* bugsApi.assign up to its await
CallAssign(id, developerId, actor) ==
    /\ inflight' = setTimeout(AssignCall(id, developerId, actor), UPDATE_DELAY)
    /\ UNCHANGED <<version, users, bugs, activity, currentUser, token, now, nextId, notified,
                   response>>

(***************************************************************************)
(* bugsApi.updateStatus                                                    *)
(***************************************************************************)
\* mutant: the tester check of updateStatus is missing
updateStatusError_TesterMayClose(id, status, actor) ==
    IF ~HasBugId(id) THEN "Bug not found"
    ELSE IF status = "closed" /\ actor.role = "developer"
            /\ getBugById(id).assigned_to # actor.id
    THEN "Only the assigned developer can close this bug"
    ELSE ""

updateStatusError(id, status, actor) ==
    IF ~HasBugId(id) THEN "Bug not found"
    ELSE IF status = "closed" /\ actor.role = "developer"
            /\ getBugById(id).assigned_to # actor.id
    THEN "Only the assigned developer can close this bug"
    ELSE IF status = "closed" /\ actor.role = "tester"
    THEN "Testers cannot close bugs"
    ELSE ""

UpdateStatus(id, status, actor) ==
    LET error == updateStatusError(id, status, actor)
        bug == updatedBug(id, [status |-> status])
    IN  /\ inflight' = Settled(StatusCall(id, status, actor))
        /\ IF error # ""
           THEN /\ response' = ApiResponse("updateStatus", FALSE, error)
                /\ notified' = {}
                /\ UNCHANGED <<version, users, bugs, activity, currentUser, token, now, nextId>>
           ELSE /\ response' = ApiResponse("updateStatus", TRUE, "")
                /\ bugs' = updateBug(id, [status |-> status])
                /\ activity' = addActivityLog(activity,
                                   bugLog("status_" \o status, bug.id, bug.title, actor), nextId)
                /\ nextId' = nextId + 1
                /\ notified' = IF /\ HasUserId(bug.created_by)
                                  /\ getUserById(bug.created_by).email # <<>>
                                  /\ bug.created_by # actor.id
                               THEN {[to |-> bug.created_by, kind |-> "status_changed"]}
                               ELSE {}
                /\ UNCHANGED <<version, users, currentUser, token, now>>

(***************************************************************************)
(* bugsApi.assign                                                          *)
(***************************************************************************)
\* mutant: assign accepts any stored user as the developer
assignError_AnyStoredUser(id, developerId, actor) ==
    IF actor.role # "admin" THEN "Only admins can assign bugs"
    ELSE IF ~HasBugId(id) THEN "Bug not found"
    ELSE IF developerId # NULL /\ ~HasUserId(developerId) THEN "Invalid developer"
    ELSE ""

assignError(id, developerId, actor) ==
    IF actor.role # "admin" THEN "Only admins can assign bugs"
    ELSE IF ~HasBugId(id) THEN "Bug not found"
    ELSE IF developerId # NULL
            /\ (~HasUserId(developerId) \/ ~IsDeveloper(getUserById(developerId)))
    THEN "Invalid developer"
    ELSE ""

Assign(id, developerId, actor) ==
    LET error == assignError(id, developerId, actor)
        bug == updatedBug(id, [assigned_to |-> developerId])
    IN  /\ inflight' = Settled(AssignCall(id, developerId, actor))
        /\ IF error # ""
           THEN /\ response' = ApiResponse("assign", FALSE, error)
                /\ notified' = {}
                /\ UNCHANGED <<version, users, bugs, activity, currentUser, token, now, nextId>>
           ELSE /\ response' = ApiResponse("assign", TRUE, "")
                /\ bugs' = updateBug(id, [assigned_to |-> developerId])
                /\ activity' = addActivityLog(activity,
                                   bugLog(IF developerId # NULL THEN "assigned" ELSE "unassigned",
                                          bug.id, bug.title, actor), nextId)
                /\ nextId' = nextId + 1
                /\ notified' = IF developerId # NULL /\ getUserById(developerId).email # <<>>
                               THEN {[to |-> developerId, kind |-> "assigned"]}
                               ELSE {}
                /\ UNCHANGED <<version, users, currentUser, token, now>>

(***************************************************************************)
(* bugsApi.delete                                                          *)
(***************************************************************************)
\* mutant: delete does not ask for an admin
deleteError_AnyRole(id, actor) ==
    IF ~HasBugId(id) THEN "Bug not found"
    ELSE IF Len(deleteBug(id)) = Len(bugs) THEN "Failed to delete bug"
    ELSE ""

deleteError(id, actor) ==
    IF actor.role # "admin" THEN "Only admins can delete bugs"
    ELSE IF ~HasBugId(id) THEN "Bug not found"
    ELSE IF Len(deleteBug(id)) = Len(bugs) THEN "Failed to delete bug"
    ELSE ""

\* mutant: the bug is removed before the caller's role is checked
Delete_RemovesFirst(id, actor) ==
    LET error == deleteError(id, actor)
    IN  IF error # ""
        THEN /\ response' = ApiResponse("delete", FALSE, error)
             /\ bugs' = IF HasBugId(id) THEN deleteBug(id) ELSE bugs
             /\ notified' = {}
             /\ UNCHANGED <<inflight, version, users, activity, currentUser, token, now,
                            nextId>>
        ELSE /\ response' = ApiResponse("delete", TRUE, "")
             /\ bugs' = deleteBug(id)
             /\ activity' = addActivityLog(activity,
                                bugLog("deleted", id, getBugById(id).title, actor), nextId)
             /\ nextId' = nextId + 1
             /\ notified' = {}
             /\ UNCHANGED <<inflight, version, users, currentUser, token, now>>

Delete(id, actor) ==
    LET error == deleteError(id, actor)
    IN  IF error # ""
        THEN /\ response' = ApiResponse("delete", FALSE, error)
             /\ notified' = {}
             /\ UNCHANGED <<inflight, version, users, bugs, activity, currentUser, token, now, nextId>>
        ELSE /\ response' = ApiResponse("delete", TRUE, "")
             /\ bugs' = deleteBug(id)
             /\ activity' = addActivityLog(activity,
                                bugLog("deleted", id, getBugById(id).title, actor), nextId)
             /\ nextId' = nextId + 1
             /\ notified' = {}
             /\ UNCHANGED <<inflight, version, users, currentUser, token, now>>

(***************************************************************************)
(* bugsApi.getAll                                                          *)
(***************************************************************************)
\* String.prototype.includes
Includes(s, sub) ==
    \E k \in 0..(Len(s) - Len(sub)) : SubSeq(s, k + 1, k + Len(sub)) = sub

\* A filter on the assignee is the text of the select box: 'all', '' (the option
\* labelled Unassigned) or a user id.  all tells 'all' apart; id holds the user id and
\* is empty for 'all' and ''.
AssigneeFilter(all, id) == [all |-> all, id |-> id]

\* the bug passes the four filters; a filter that is empty or 'all' is skipped
passesFilters(b, filters) ==
    /\ (filters.status # "" /\ filters.status # "all") => b.status = filters.status
    /\ (filters.priority # "" /\ filters.priority # "all") => b.priority = filters.priority
    /\ (filters.assigned_to.id # <<>>) => b.assigned_to = filters.assigned_to.id[1]
    /\ (filters.search # <<>>) =>
          \/ Includes(ToLowerCase(b.title), ToLowerCase(filters.search))
          \/ Includes(ToLowerCase(b.description), ToLowerCase(filters.search))

\* Array.prototype.sort by updated_at, descending; the sort is stable
RECURSIVE sortByUpdated(_)
sortByUpdated(s) ==
    IF s = <<>> THEN <<>>
    ELSE LET k == CHOOSE i \in 1..Len(s) :
                     /\ \A j \in 1..Len(s) : s[j].updated_at <= s[i].updated_at
                     /\ \A j \in 1..(i - 1) : s[j].updated_at < s[i].updated_at
         IN  <<s[k]>> \o sortByUpdated(SubSeq(s, 1, k - 1) \o SubSeq(s, k + 1, Len(s)))

GetAllBugs(filters) ==
    /\ response' = ApiData("getAllBugs",
                           sortByUpdated(SelectSeq(bugs,
                                                   LAMBDA b : passesFilters(b, filters))))
    /\ notified' = {}
    /\ UNCHANGED <<inflight, version, users, bugs, activity, currentUser, token, now, nextId>>

(***************************************************************************)
(* dashboardApi.getStats                                                   *)
(***************************************************************************)
\* bugs.filter(b => b.status === status).length
CountStatus(status) == Cardinality({i \in 1..Len(bugs) : bugs[i].status = status})

\* bugs.filter(b => b.priority === priority).length
CountPriority(priority) == Cardinality({i \in 1..Len(bugs) : bugs[i].priority = priority})

\* bugs.filter(b => b.priority === priority && b.status !== 'closed').length
CountOpenPriority(priority) ==
    Cardinality({i \in 1..Len(bugs) :
                    bugs[i].priority = priority /\ bugs[i].status # "closed"})

\* mutant: the priority counts leave closed bugs out, as db.getStats does
dashboardStats_OpenOnly ==
    [total |-> Len(bugs),
     open |-> CountStatus("open"),
     in_progress |-> CountStatus("in_progress"),
     closed |-> CountStatus("closed"),
     critical |-> CountOpenPriority("critical"),
     high |-> CountOpenPriority("high"),
     medium |-> CountOpenPriority("medium"),
     low |-> CountOpenPriority("low")]

dashboardStats ==
    [total |-> Len(bugs),
     open |-> CountStatus("open"),
     in_progress |-> CountStatus("in_progress"),
     closed |-> CountStatus("closed"),
     critical |-> CountPriority("critical"),
     high |-> CountPriority("high"),
     medium |-> CountPriority("medium"),
     low |-> CountPriority("low")]

GetStats ==
    /\ response' = ApiData("getStats", dashboardStats)
    /\ notified' = {}
    /\ UNCHANGED <<inflight, version, users, bugs, activity, currentUser, token, now, nextId>>

(***************************************************************************)
(* The calls when the store refuses a write: localStorage.setItem throws.    *)
(* Each call runs as far as its first write; register and create have a     *)
(* try/catch around it, the other calls have none.                          *)
(***************************************************************************)
storageError == "QuotaExceededError"

\* the call ends with the exception, not with a result
Thrown(op) == [op |-> op, exception |-> storageError]

\* the outcome of a call whose first write throws
WriteFails(outcome) ==
    /\ response' = outcome
    /\ notified' = {}
    /\ UNCHANGED <<inflight, version, users, bugs, activity, currentUser, token, now, nextId>>

RegisterFault(username, email, password, role) ==
    /\ createUserError(username, email, password) = ""
    /\ WriteFails(ApiResponse("register", FALSE, storageError))

LoginFault(username, password) ==
    /\ loginError(username, password) = ""
    /\ WriteFails(Thrown("login"))

DeleteUserFault(id, actor) ==
    /\ deleteUserError(id, actor) = ""
    /\ WriteFails(Thrown("deleteUser"))

CreateBugFault(bugData, actor) ==
    /\ createBugError(bugData) = ""
    /\ WriteFails(ApiResponse("create", FALSE, storageError))

UpdateFault(id, updates, actor) ==
    /\ updateError(id, actor) = ""
    /\ WriteFails(Thrown("update"))

UpdateStatusFault(id, status, actor) ==
    /\ updateStatusError(id, status, actor) = ""
    /\ WriteFails(Thrown("updateStatus"))

AssignFault(id, developerId, actor) ==
    /\ assignError(id, developerId, actor) = ""
    /\ WriteFails(Thrown("assign"))

DeleteFault(id, actor) ==
    /\ deleteError(id, actor) = ""
    /\ WriteFails(Thrown("delete"))

(***************************************************************************)
(* The inputs the calls are tried with.                                    *)
(***************************************************************************)
nameAdm == <<"a", "d", "m">>
nameDev == <<"d", "e", "v">>
nameDEV == <<"D", "e", "V">>
nameTes == <<"t", "e", "s">>
mailAdm == <<"a", "@", "x", ".", "c">>
mailDev == <<"d", "@", "x", ".", "c">>
mailTes == <<"t", "@", "x", ".", "c">>
mailTES == <<"T", "@", "X", ".", "c">>
nameTs2 == <<"t", "s", "2">>
mailDv2 == <<"d", "2", "@", "x", ".", "c">>
secret == <<"s", "e", "c", "r", "e", "t">>

RegisterInputs ==
    { [username |-> nameAdm, email |-> mailAdm, password |-> secret, role |-> "admin"],
      [username |-> nameDev, email |-> mailDev, password |-> secret, role |-> "developer"],
      [username |-> nameTes, email |-> mailTes, password |-> secret, role |-> "tester"] }

\* the same people, and two who differ from them only in the case of a username or email
RegisterInputsCase ==
    RegisterInputs \cup
    { [username |-> nameDEV, email |-> mailDv2, password |-> secret, role |-> "tester"],
      [username |-> nameTs2, email |-> mailTES, password |-> secret, role |-> "developer"] }

\* registrations createUser's validation refuses: each is the tester's registration
\* with one field replaced
nameShort == <<"t", "e">>
nameDash == <<"t", "-", "s">>
secretShort == <<"s", "e", "c", "r", "e">>
secretWrong == <<"s", "e", "c", "r", "e", "T">>

BadEmails ==
    { <<"t", "x", ".", "c">>,          \* no @
      <<"t", "@", "x">>,               \* no dot after the @
      <<"t", "@", "x", ".">>,          \* nothing after the dot
      <<"@", "x", ".", "c">>,          \* nothing before the @
      <<"t", "@", ".", "c">>,          \* nothing between the @ and the dot
      <<"t", " ", "@", "x", ".", "c">>,  \* a space
      <<"t", "@", "@", "x", ".", "c">> } \* two @

RegisterInputsInvalid ==
    { [username |-> nameTes, email |-> e, password |-> secret, role |-> "tester"] :
         e \in BadEmails }
    \cup
    { [username |-> nameTes, email |-> mailTes, password |-> secretShort, role |-> "tester"],
      [username |-> nameShort, email |-> mailTes, password |-> secret, role |-> "tester"],
      [username |-> nameDash, email |-> mailTes, password |-> secret, role |-> "tester"] }

LoginInputs ==
    { [username |-> u, password |-> pw] :
         u \in {nameAdm, nameDEV, nameTes}, pw \in {secret, secretWrong} }

titleOk == <<"B", "u", "g">>
titleNew == <<"F", "i", "x">>
titleShort == <<" ", "B", "u", " ">>
descOk == <<"I", "t", " ", "c", "r", "a", "s", "h", "e", "s">>

\* titles and descriptions with surrounding white space, too short once trimmed, or empty
titlePadded == <<" ", " ", "F", "i", "x", " ">>
titleBlank == <<" ", " ", " ", " ">>
descPadded == <<" ", "I", "t", " ", "h", "a", "n", "g", "s", " ", "u", "p", " ", " ">>
descShort == <<" ", "I", "t", " ", "c", "r", "a", "s", "h", " ">>

titleTwo == <<"B", "u">>

Statuses == {"open", "in_progress", "closed"}

\* what BugForm submits for a new bug: the creator is the acting user
\* (the form shows the assignee field to admins only, and no status field)
CreateInputs(actor) ==
    { [title |-> titleOk, description |-> descOk, priority |-> "high", status |-> "open",
       created_by |-> actor.id, assigned_to |-> a] :
          a \in {NULL} \cup (IF actor.role = "admin"
                               THEN {getDevelopers[i].id : i \in 1..Len(getDevelopers)}
                               ELSE {}) }
      \cup { [title |-> titleShort, description |-> descOk, priority |-> "high",
              status |-> "open", created_by |-> actor.id, assigned_to |-> NULL] }

CreateInputsTrim(actor) ==
    { [title |-> t, description |-> d, priority |-> "low", status |-> "open",
       created_by |-> actor.id, assigned_to |-> NULL] :
          t \in {titleOk, titlePadded, titleShort, titleBlank, <<>>},
          d \in {descOk, descPadded, descShort, <<>>} }

UpdateInputs(actor) ==
    {[status |-> "closed"], [title |-> titleNew]}

\* what a caller of bugsApi.update may pass as updates (a Partial<Bug>): one field, or
\* what the edit form submits for the bug, with a title or a description typed anew
EditInputs(bug) ==
    { [created_by |-> 1], [id |-> 3], [updated_at |-> 9], [title |-> titleTwo],
      [title |-> titleShort], [description |-> descShort] }
      \cup { [title |-> t, description |-> descOk, priority |-> bug.priority,
              status |-> bug.status, assigned_to |-> bug.assigned_to,
              created_by |-> bug.created_by] : t \in {titleNew, titlePadded} }

\* two admins and a tester
nameAd2 == <<"a", "d", "2">>
mailAd2 == <<"a", "2", "@", "x", ".", "c">>

RegisterInputsAdmins ==
    { [username |-> nameAdm, email |-> mailAdm, password |-> secret, role |-> "admin"],
      [username |-> nameAd2, email |-> mailAd2, password |-> secret, role |-> "admin"],
      [username |-> nameTes, email |-> mailTes, password |-> secret, role |-> "tester"] }

\* the form's four priorities, and a title that is refused
CreateInputsPriority(actor) ==
    { [title |-> titleOk, description |-> descOk, priority |-> p, status |-> "open",
       created_by |-> actor.id, assigned_to |-> NULL] :
          p \in {"low", "medium", "high", "critical"} }
      \cup { [title |-> titleShort, description |-> descOk, priority |-> "critical",
              status |-> "open", created_by |-> actor.id, assigned_to |-> NULL] }

\* what the filter bar of the bug list passes to bugsApi.getAll
ListFilters ==
    { [status |-> st, priority |-> pr, assigned_to |-> a, search |-> se] :
         st \in {"all", "open"},
         pr \in {"all", "high"},
         a \in {AssigneeFilter(TRUE, <<>>), AssigneeFilter(FALSE, <<>>),
                AssigneeFilter(FALSE, <<4>>)},
         se \in {<<>>, <<"b", "U">>, <<"z">>} }

Actors == Range(users)

\* the id of every user that has registered, deleted since or not
RegisteredIds ==
    {activity[i].user_id : i \in {j \in 1..Len(activity) :
                                     activity[j].action = "user_registered"}}

\* the model's bound on the activity log: at the bound only the calls that fail, and so
\* leave the log as it is, are taken
Within(n, error, call) == ~(Len(activity) >= n /\ error = "") /\ call

Next ==
    \/ \E r \in RegisterInputs :
          Within(MaxLog, createUserError(r.username, r.email, r.password),
                 Register(r.username, r.email, r.password, r.role))
    \/ \E actor \in Actors : \E id \in RegisteredIds : DeleteUser(id, actor)
    \/ \E actor \in Actors : \E bugData \in CreateInputs(actor) :
          Within(MaxLog, createBugError(bugData),
                 CreateBug(bugData, actor))
    \/ \E actor \in Actors : \E id \in BugIds \cup {actor.id} : \E updates \in UpdateInputs(actor) :
          Within(MaxLog, updateError(id, actor),
                 Update(id, updates, actor))
    \/ \E actor \in Actors : \E id \in BugIds \cup {actor.id} : \E status \in Statuses :
          Within(MaxLog, updateStatusError(id, status, actor),
                 UpdateStatus(id, status, actor))
    \/ \E actor \in Actors : \E id \in BugIds \cup {actor.id} :
          \E developerId \in {NULL} \cup RegisteredIds :
             Within(MaxLog, assignError(id, developerId, actor),
                 Assign(id, developerId, actor))
    \/ \E actor \in Actors : \E id \in BugIds \cup {actor.id} :
          Within(MaxLog, deleteError(id, actor),
                 Delete(id, actor))

Spec == Init /\ [][Next]_vars

\* registration and user deletion only
NextUsers ==
    \/ \E r \in RegisterInputsCase :
          Within(MaxLog, createUserError(r.username, r.email, r.password),
                 Register(r.username, r.email, r.password, r.role))
    \/ \E actor \in Actors : \E id \in RegisteredIds : DeleteUser(id, actor)

SpecUsers == Init /\ [][NextUsers]_vars

\* the clock within the model's bounds
TickWithin(d) ==
    /\ IF d = TOKEN_TTL THEN now \div TOKEN_TTL < MaxDays ELSE now % TOKEN_TTL < MaxMs
    /\ Tick(d)

\* the accounts and the session: register, login, logout, getCurrentUser, the user
\* reads and deleteUser
NextAuth ==
    \/ \E r \in RegisterInputs \cup RegisterInputsInvalid :
          /\ nextId < MaxId
          /\ Within(MaxAccounts, createUserError(r.username, r.email, r.password),
                    Register(r.username, r.email, r.password, r.role))
    \/ \E c \in LoginInputs :
          /\ nextId < MaxId \/ loginError(c.username, c.password) # ""
          /\ Login(c.username, c.password)
    \/ Logout
    \/ GetCurrentUser
    \/ GetAll
    \/ GetDevelopers
    \/ \E id \in RegisteredIds : GetById(id)
    \/ \E actor \in Actors : \E id \in RegisteredIds : DeleteUser(id, actor)

SpecAuth == Init /\ [][NextAuth]_vars

\* bug creation with titles and descriptions that need trimming
NextCreate ==
    \/ \E r \in RegisterInputs :
          Within(MaxCreate, createUserError(r.username, r.email, r.password),
                 Register(r.username, r.email, r.password, r.role))
    \/ \E actor \in Actors : \E bugData \in CreateInputsTrim(actor) :
          Within(MaxCreate, createBugError(bugData),
                 CreateBug(bugData, actor))

SpecCreate == Init /\ [][NextCreate]_vars

\* The store after an admin has registered, reported one bug and edited it until the
\* activity log holds n entries: the registration, the creation and n - 2 edits.
seededLog(n) ==
    [i \in 1..n |->
        LET k == n + 1 - i
        IN  IF k = 1
            THEN [id |-> 2, action |-> "user_registered", bug_id |-> NULL,
                  bug_title |-> <<>>, user_id |-> 1, user_name |-> nameAdm, timestamp |-> 0]
            ELSE [id |-> k + 3, action |-> IF k = 2 THEN "created" ELSE "updated",
                  bug_id |-> 4, bug_title |-> IF k = 2 THEN titleOk ELSE titleNew,
                  user_id |-> 1, user_name |-> nameAdm, timestamp |-> 0]]

InitLog ==
    /\ inflight = <<>>
    /\ version = <<CURRENT_DB_VERSION>>
    /\ now = 0
    /\ users = <<newUser(nameAdm, mailAdm, secret, "admin", 1)>>
    /\ bugs = <<[newBug([title |-> titleOk, description |-> descOk, priority |-> "high",
                         status |-> "open", created_by |-> 1, assigned_to |-> NULL], 4)
                    EXCEPT !.title = titleNew]>>
    /\ \E n \in {ACTIVITY_LIMIT - 1, ACTIVITY_LIMIT} :
          /\ activity = seededLog(n)
          /\ nextId = n + 4
    /\ currentUser = <<safeUser(users[1])>>
    /\ token = <<generateToken(1, 3)>>
    /\ notified = {}
    /\ response = ApiResponse("update", TRUE, "")

\* the model's bound on the calls that write to a full log
LogWithin(error, call) ==
    ~(nextId >= ACTIVITY_LIMIT + 4 + MaxAppend /\ error = "") /\ call

\* the calls that write to the activity log, and the clock
NextLog ==
    \/ \E r \in RegisterInputs :
          LogWithin(createUserError(r.username, r.email, r.password),
                    Register(r.username, r.email, r.password, r.role))
    \/ \E actor \in Actors : \E bugData \in CreateInputs(actor) :
          LogWithin(createBugError(bugData), CreateBug(bugData, actor))
    \/ \E actor \in Actors : \E id \in BugIds : \E updates \in UpdateInputs(actor) :
          LogWithin(updateError(id, actor), Update(id, updates, actor))
    \/ \E actor \in Actors : \E id \in BugIds : \E status \in Statuses :
          LogWithin(updateStatusError(id, status, actor), UpdateStatus(id, status, actor))
    \/ \E actor \in Actors : \E id \in BugIds :
          \E developerId \in {NULL} \cup {users[i].id : i \in 1..Len(users)} :
             LogWithin(assignError(id, developerId, actor), Assign(id, developerId, actor))
    \/ \E actor \in Actors : \E id \in BugIds :
          LogWithin(deleteError(id, actor), Delete(id, actor))
    \/ TickWithin(1)

SpecLog == InitLog /\ [][NextLog]_vars

\* What the token entry of the session store can hold: the token register issued,
\* texts with two and with four dot-separated parts, payloads that do not decode or
\* decode to null, payloads without an expiry or without a user id, and payloads with
\* another expiry or another user id.
TokenInputs ==
    LET header == TokenPart("object", <<>>, <<>>, <<>>, 0)
        text == TokenPart("none", <<>>, <<>>, <<>>, 6)
        issued == TokenPart("object", <<4>>, <<TOKEN_TTL>>, <<0>>, 0)
    IN  {generateToken(4, 6)}
          \cup {<<header, issued>>, <<header, issued, text, text>>}
          \cup {<<header, TokenPart(j, <<>>, <<>>, <<>>, 0), text>> : j \in {"none", "null"}}
          \cup {<<header, TokenPart("object", u, <<>>, <<0>>, 0), text>> :
                    u \in {<<>>, <<4>>}}
          \cup {<<header, TokenPart("object", <<u>>, <<x>>, <<0>>, 0), text>> :
                    u \in {1, 4}, x \in {0, 1, TOKEN_TTL + 1}}

\* The store after an admin and then a developer have registered, the developer's
\* session being the current one, with a token entry out of TokenInputs.
InitSession ==
    /\ inflight = <<>>
    /\ version = <<CURRENT_DB_VERSION>>
    /\ now = 0
    /\ users = <<newUser(nameAdm, mailAdm, secret, "admin", 1),
                 newUser(nameDev, mailDev, secret, "developer", 4)>>
    /\ bugs = <<>>
    /\ activity = <<[id |-> 5, action |-> "user_registered", bug_id |-> NULL,
                     bug_title |-> <<>>, user_id |-> 4, user_name |-> nameDev,
                     timestamp |-> 0],
                    [id |-> 2, action |-> "user_registered", bug_id |-> NULL,
                     bug_title |-> <<>>, user_id |-> 1, user_name |-> nameAdm,
                     timestamp |-> 0]>>
    /\ currentUser = <<safeUser(users[2])>>
    /\ \E t \in TokenInputs : token = <<t>>
    /\ nextId = 7
    /\ notified = {}
    /\ response = ApiData("register", [user |-> users[2], token |-> generateToken(4, 6)])

\* the session over time: getCurrentUser, login, logout, deleteUser and the clock
NextSession ==
    \/ GetCurrentUser
    \/ \E c \in LoginInputs :
          /\ nextId < MaxId \/ loginError(c.username, c.password) # ""
          /\ Login(c.username, c.password)
    \/ Logout
    \/ \E actor \in Actors : \E id \in RegisteredIds : DeleteUser(id, actor)
    \/ TickWithin(1)
    \/ TickWithin(TOKEN_TTL)

SpecSession == InitSession /\ [][NextSession]_vars

\* One walk through the tracker: a tester registers, then an admin and the developer
\* bob in either order; the tester reports a bug of high priority, the admin assigns
\* it to bob, bob sets it in progress and then closed.  The activity log tells how far
\* the walk has come; the dashboard is read, and the clock moves, at any point.
nameBob == <<"b", "o", "b">>
mailBob == <<"b", "@", "x", ".", "c">>

ScenarioUser(username) == getUserByUsername(username)

ScenarioBug == bugs[1]

NextScenario ==
    \/ /\ Len(activity) = 0
       /\ Register(nameTes, mailTes, secret, "tester")
    \/ /\ Len(activity) \in {1, 2}
       /\ ~HasUsername(nameAdm)
       /\ Register(nameAdm, mailAdm, secret, "admin")
    \/ /\ Len(activity) \in {1, 2}
       /\ ~HasUsername(nameBob)
       /\ Register(nameBob, mailBob, secret, "developer")
    \/ /\ Len(activity) = 3
       /\ CreateBug([title |-> titleOk, description |-> descOk, priority |-> "high",
                     status |-> "open", created_by |-> ScenarioUser(nameTes).id,
                     assigned_to |-> NULL], ScenarioUser(nameTes))
    \/ /\ Len(activity) = 4
       /\ Assign(ScenarioBug.id, ScenarioUser(nameBob).id, ScenarioUser(nameAdm))
    \/ /\ Len(activity) = 5
       /\ UpdateStatus(ScenarioBug.id, "in_progress", ScenarioUser(nameBob))
    \/ /\ Len(activity) = 6
       /\ UpdateStatus(ScenarioBug.id, "closed", ScenarioUser(nameBob))
    \/ GetStats
    \/ TickWithin(1)
    \/ TickWithin(TOKEN_TTL)

SpecScenario == Init /\ [][NextScenario]_vars

\* the calls that write, with a store that refuses the write; register, deleteUser,
\* create and assign also with a store that takes it
NextFaults ==
    \/ \E r \in RegisterInputs :
          Within(MaxCreate, createUserError(r.username, r.email, r.password),
                 Register(r.username, r.email, r.password, r.role))
    \/ \E r \in RegisterInputs : RegisterFault(r.username, r.email, r.password, r.role)
    \/ \E c \in LoginInputs : LoginFault(c.username, c.password)
    \/ \E actor \in Actors : \E id \in RegisteredIds : DeleteUser(id, actor)
    \/ \E actor \in Actors : \E id \in RegisteredIds : DeleteUserFault(id, actor)
    \/ \E actor \in Actors : \E bugData \in CreateInputs(actor) :
          Within(MaxCreate, createBugError(bugData), CreateBug(bugData, actor))
    \/ \E actor \in Actors : \E bugData \in CreateInputs(actor) :
          CreateBugFault(bugData, actor)
    \/ \E actor \in Actors : \E id \in BugIds : \E updates \in UpdateInputs(actor) :
          UpdateFault(id, updates, actor)
    \/ \E actor \in Actors : \E id \in BugIds : \E status \in Statuses :
          UpdateStatusFault(id, status, actor)
    \/ \E actor \in Actors : \E id \in BugIds :
          \E developerId \in {NULL} \cup RegisteredIds :
             Within(MaxCreate, assignError(id, developerId, actor),
                    Assign(id, developerId, actor))
    \/ \E actor \in Actors : \E id \in BugIds :
          \E developerId \in {NULL} \cup RegisteredIds :
             AssignFault(id, developerId, actor)
    \/ \E actor \in Actors : \E id \in BugIds : DeleteFault(id, actor)

SpecFaults == Init /\ [][NextFaults]_vars

\* what an admin and a developer leave in the store after registering, the developer
\* last, and the developer reporting one bug
SeededStore ==
    /\ users = <<newUser(nameAdm, mailAdm, secret, "admin", 1),
                 newUser(nameDev, mailDev, secret, "developer", 4)>>
    /\ bugs = <<newBug([title |-> titleOk, description |-> descOk, priority |-> "high",
                        status |-> "open", created_by |-> 4, assigned_to |-> NULL], 7)>>
    /\ activity =
          <<[id |-> 8, action |-> "created", bug_id |-> 7, bug_title |-> titleOk,
             user_id |-> 4, user_name |-> nameDev, timestamp |-> 0],
            [id |-> 5, action |-> "user_registered", bug_id |-> NULL,
             bug_title |-> <<>>, user_id |-> 4, user_name |-> nameDev, timestamp |-> 0],
            [id |-> 2, action |-> "user_registered", bug_id |-> NULL,
             bug_title |-> <<>>, user_id |-> 1, user_name |-> nameAdm, timestamp |-> 0]>>
    /\ currentUser = <<safeUser(users[2])>>
    /\ token = <<generateToken(4, 6)>>
    /\ nextId = 9

\* The store the application finds when it loads: nothing at all on the first run, or
\* what an admin and a developer left after registering and reporting one bug, under
\* no marker, the marker of an earlier release, or the expected marker.
InitStartup ==
    /\ inflight = <<>>
    /\ now = 0
    /\ notified = {}
    /\ response = ApiResponse("none", TRUE, "")
    /\ \/ /\ version = <<>>
          /\ users = <<>>
          /\ bugs = <<>>
          /\ activity = <<>>
          /\ currentUser = <<>>
          /\ token = <<>>
          /\ nextId = 1
       \/ /\ version \in {<<>>, <<"1.0.0">>, <<CURRENT_DB_VERSION>>}
          /\ SeededStore

\* the application loads, at any time; it serves calls once the store carries the
\* expected marker
NextStartup ==
    \/ Startup
    \/ /\ version = <<CURRENT_DB_VERSION>>
       /\ \E r \in RegisterInputs :
             Within(MaxLog, createUserError(r.username, r.email, r.password),
                    Register(r.username, r.email, r.password, r.role))
    \/ /\ version = <<CURRENT_DB_VERSION>>
       /\ \E actor \in Actors : \E bugData \in CreateInputs(actor) :
             Within(MaxLog, createBugError(bugData), CreateBug(bugData, actor))
    \/ /\ version = <<CURRENT_DB_VERSION>>
       /\ Logout

SpecStartup == InitStartup /\ [][NextStartup]_vars

\* the store of a signed-in developer
InitGate ==
    /\ inflight = <<>>
    /\ version = <<CURRENT_DB_VERSION>>
    /\ now = 0
    /\ notified = {}
    /\ response = ApiResponse("create", TRUE, "")
    /\ SeededStore

\* the calls the interface offers to a signed-in user, tried while the session is
\* active, after logout, and after the session token has expired
NextGate ==
    \/ Logout
    \/ TickWithin(1)
    \/ TickWithin(TOKEN_TTL)
    \/ \E actor \in Actors : \E bugData \in CreateInputs(actor) :
          Within(3 + MaxAppend, createBugError(bugData), CreateBug(bugData, actor))
    \/ \E actor \in Actors : \E id \in BugIds : \E updates \in UpdateInputs(actor) :
          Within(3 + MaxAppend, updateError(id, actor), Update(id, updates, actor))
    \/ \E actor \in Actors : \E id \in BugIds : \E status \in Statuses :
          Within(3 + MaxAppend, updateStatusError(id, status, actor),
                 UpdateStatus(id, status, actor))
    \/ \E actor \in Actors : \E id \in BugIds : \E developerId \in {NULL} \cup UserIds :
          Within(3 + MaxAppend, assignError(id, developerId, actor),
                 Assign(id, developerId, actor))
    \/ \E actor \in Actors : \E id \in BugIds :
          Within(3 + MaxAppend, deleteError(id, actor), Delete(id, actor))
    \/ \E actor \in Actors : \E id \in RegisteredIds : DeleteUser(id, actor)
    \/ GetAll
    \/ GetDevelopers
    \/ GetStats

SpecGate == InitGate /\ [][NextGate]_vars

\* edits of the one bug of a signed-in developer's store, while the clock moves
NextEdit ==
    \/ \E actor \in Actors : \E id \in BugIds \cup {7} :
          \E updates \in (IF HasBugId(id) THEN EditInputs(getBugById(id))
                                           ELSE {[title |-> titleNew]}) :
             Within(3 + MaxAppend, updateError(id, actor), Update(id, updates, actor))
    \/ \E actor \in Actors : \E id \in BugIds : \E status \in Statuses :
          Within(3 + MaxAppend, updateStatusError(id, status, actor),
                 UpdateStatus(id, status, actor))
    \/ \E actor \in Actors : \E id \in BugIds : \E developerId \in {NULL} \cup UserIds :
          Within(3 + MaxAppend, assignError(id, developerId, actor),
                 Assign(id, developerId, actor))
    \/ TickWithin(1)

SpecEdit == InitGate /\ [][NextEdit]_vars

\* bugs of every priority reported among admins and a tester, and the delivery of the
\* notifications
NextNotify ==
    \/ \E r \in RegisterInputsAdmins :
          Within(MaxLog, createUserError(r.username, r.email, r.password),
                 Register(r.username, r.email, r.password, r.role))
    \/ \E actor \in Actors : \E bugData \in CreateInputsPriority(actor) :
          Within(MaxLog, createBugError(bugData), CreateBug(bugData, actor))
    \/ \E n \in notified : \E ok \in BOOLEAN : Deliver(n, ok)

SpecNotify == Init /\ [][NextNotify]_vars

\* the bug list read with every filter, while bugs are reported, assigned and moved
\* on and the clock moves
NextList ==
    \/ \E filters \in ListFilters : GetAllBugs(filters)
    \/ \E actor \in Actors : \E bugData \in CreateInputs(actor) :
          Within(3 + MaxAppend, createBugError(bugData), CreateBug(bugData, actor))
    \/ \E actor \in Actors : \E id \in BugIds : \E status \in Statuses :
          Within(3 + MaxAppend, updateStatusError(id, status, actor),
                 UpdateStatus(id, status, actor))
    \/ \E actor \in Actors : \E id \in BugIds : \E developerId \in {NULL} \cup UserIds :
          Within(3 + MaxAppend, assignError(id, developerId, actor),
                 Assign(id, developerId, actor))
    \/ TickWithin(1)

SpecList == InitGate /\ [][NextList]_vars

\* Status changes and assignments are called while earlier ones wait for their
\* timers; the clock moves in steps of 100 ms and a timer fires once it is due.
NextRace ==
    \/ \E actor \in Actors : \E id \in BugIds : \E status \in {"in_progress", "closed"} :
          /\ Len(inflight) < MaxCalls
          /\ Len(activity) + Len(inflight) < 3 + MaxCalls
          /\ CallUpdateStatus(id, status, actor)
    \/ \E actor \in Actors : \E id \in BugIds : \E developerId \in {NULL, 4} :
          /\ Len(inflight) < MaxCalls
          /\ Len(activity) + Len(inflight) < 3 + MaxCalls
          /\ CallAssign(id, developerId, actor)
    \/ /\ inflight # <<>>
       /\ Head(inflight).due <= now
       /\ Head(inflight).call.op = "updateStatus"
       /\ UpdateStatus(Head(inflight).call.id, Head(inflight).call.status,
                       Head(inflight).call.actor)
    \/ /\ inflight # <<>>
       /\ Head(inflight).due <= now
       /\ Head(inflight).call.op = "assign"
       /\ Assign(Head(inflight).call.id, Head(inflight).call.developerId,
                 Head(inflight).call.actor)
    \/ /\ now < MaxTicks * 100
       /\ Tick(100)

SpecRace == InitGate /\ [][NextRace]_vars

\* every call of the operation layer that can be refused, with inputs it accepts and
\* inputs it refuses, on the store of a signed-in developer; the sign-ins are those
\* with credentials the store does not hold
NextRefuse ==
    \/ \E r \in RegisterInputs \cup RegisterInputsInvalid :
          Within(3 + MaxAppend, createUserError(r.username, r.email, r.password),
                 Register(r.username, r.email, r.password, r.role))
    \/ \E c \in LoginInputs :
          /\ loginError(c.username, c.password) # ""
          /\ Login(c.username, c.password)
    \/ \E id \in RegisteredIds : GetById(id)
    \/ \E actor \in Actors : \E id \in RegisteredIds : DeleteUser(id, actor)
    \/ \E actor \in Actors : \E bugData \in CreateInputs(actor) :
          Within(3 + MaxAppend, createBugError(bugData), CreateBug(bugData, actor))
    \/ \E actor \in Actors : \E id \in BugIds \cup {7} : \E updates \in UpdateInputs(actor) :
          Within(3 + MaxAppend, updateError(id, actor), Update(id, updates, actor))
    \/ \E actor \in Actors : \E id \in BugIds \cup {7} : \E status \in Statuses :
          Within(3 + MaxAppend, updateStatusError(id, status, actor),
                 UpdateStatus(id, status, actor))
    \/ \E actor \in Actors : \E id \in BugIds \cup {7} :
       \E developerId \in {NULL} \cup RegisteredIds :
          Within(3 + MaxAppend, assignError(id, developerId, actor),
                 Assign(id, developerId, actor))
    \/ \E actor \in Actors : \E id \in BugIds \cup {7} :
          Within(3 + MaxAppend, deleteError(id, actor), Delete(id, actor))

SpecRefuse == InitGate /\ [][NextRefuse]_vars

\* the application loads, people register, sign in and out and the session is
\* restored, while days pass
NextPair ==
    \/ Startup
    \/ /\ version = <<CURRENT_DB_VERSION>>
       /\ \E r \in RegisterInputs :
             Within(MaxLog, createUserError(r.username, r.email, r.password),
                    Register(r.username, r.email, r.password, r.role))
    \/ /\ version = <<CURRENT_DB_VERSION>>
       /\ \E c \in LoginInputs :
             /\ nextId < MaxId \/ loginError(c.username, c.password) # ""
             /\ Login(c.username, c.password)
    \/ /\ version = <<CURRENT_DB_VERSION>>
       /\ Logout
    \/ /\ version = <<CURRENT_DB_VERSION>>
       /\ GetCurrentUser
    \/ TickWithin(TOKEN_TTL)

SpecPair == InitStartup /\ [][NextPair]_vars

(***************************************************************************)
(* Properties.                                                             *)
(***************************************************************************)
\* the bug with this id is in the collection after the step, with this status
StatusAfter(id, status) ==
    \E i \in 1..Len(bugs') : bugs'[i].id = id /\ bugs'[i].status = status

AssigneeAfter(id, assignee) ==
    \E i \in 1..Len(bugs') : bugs'[i].id = id /\ bugs'[i].assigned_to = assignee

ClosedBefore(id) == \E i \in 1..Len(bugs) : bugs[i].id = id /\ bugs[i].status = "closed"

\* the actor may close: an admin, or the developer the bug is assigned to
MayClose(id, actor) ==
    \/ actor.role = "admin"
    \/ actor.role = "developer" /\ HasBugId(id) /\ getBugById(id).assigned_to = actor.id

\* a call of the bug endpoints by this actor
BugCallBy(actor) ==
    \/ \E bugData \in CreateInputs(actor) : CreateBug(bugData, actor)
    \/ \E id \in BugIds : \E updates \in UpdateInputs(actor) : Update(id, updates, actor)
    \/ \E id \in BugIds : \E status \in Statuses : UpdateStatus(id, status, actor)
    \/ \E id \in BugIds : \E developerId \in {NULL} \cup UserIds : Assign(id, developerId, actor)
    \/ \E id \in BugIds : Delete(id, actor)

\* C1: a bug that was not closed before a call of createBug, updateBug, setBugStatus,
\* assignBug or deleteBug is closed after it only if the caller is an admin or the
\* developer the bug was assigned to; no tester and no other developer closes a bug.
C1_ClosedOnlyByAdminOrAssignee ==
    [][\A actor \in Actors :
          BugCallBy(actor) =>
              \A i \in 1..Len(bugs') :
                  (bugs'[i].status = "closed" /\ ~ClosedBefore(bugs'[i].id))
                      => MayClose(bugs'[i].id, actor)]_vars

\* C2: setBugStatus(id, 'closed', actor) on an existing bug succeeds exactly when the
\* actor is an admin or the developer the bug is assigned to; an unassigned developer and
\* every tester are rejected, and a rejected call leaves the bugs as they were.
C2_CloseSucceedsIffAdminOrAssignee ==
    [][response'.op = "updateStatus" =>
       \A actor \in Actors : \A id \in BugIds :
          UpdateStatus(id, "closed", actor) =>
              /\ response'.success <=> MayClose(id, actor)
              /\ response'.success => StatusAfter(id, "closed")
              /\ ~response'.success => bugs' = bugs]_vars

\* C2 witness: the developer a bug is assigned to has just closed it
C2_Witness ==
    /\ response.op = "updateStatus"
    /\ response.success
    /\ activity[1].action = "status_closed"
    /\ \E i \in 1..Len(bugs) : \E j \in 1..Len(users) :
          /\ bugs[i].id = activity[1].bug_id
          /\ bugs[i].status = "closed"
          /\ users[j].id = activity[1].user_id
          /\ users[j].role = "developer"
          /\ bugs[i].assigned_to = users[j].id

\* C3: every stored bug with a non-null assignee is assigned to a user that is in the
\* user collection and has role developer or admin.
C3_AssigneeIsStoredDeveloper ==
    \A i \in 1..Len(bugs) :
        bugs[i].assigned_to # NULL =>
            /\ HasUserId(bugs[i].assigned_to)
            /\ getUserById(bugs[i].assigned_to).role \in {"developer", "admin"}

\* the role table's "edit bug fields" row
MayEdit(id, actor) ==
    \/ actor.role = "admin"
    \/ /\ actor.role = "developer"
       /\ (getBugById(id).assigned_to = actor.id \/ getBugById(id).created_by = actor.id)
    \/ actor.role = "tester" /\ getBugById(id).created_by = actor.id

\* C4: updateBug on an existing bug succeeds for an admin, for a developer who is the
\* bug's assignee or creator and for a tester who is its creator; every other call is
\* rejected and leaves the bugs unchanged.
C4_UpdateOnlyByOwner ==
    [][response'.op = "update" =>
       \A actor \in Actors : \A id \in BugIds : \A updates \in UpdateInputs(actor) :
          Update(id, updates, actor) =>
              /\ response'.success <=> MayEdit(id, actor)
              /\ ~response'.success => bugs' = bugs]_vars

\* C5: createBug succeeds only for a tester or an admin; a developer's createBug is
\* rejected and adds no bug.
C5_CreateOnlyByTesterOrAdmin ==
    [][response'.op = "create" =>
       \A actor \in Actors : \A bugData \in CreateInputs(actor) :
          CreateBug(bugData, actor) =>
              /\ response'.success => actor.role \in {"tester", "admin"}
              /\ actor.role = "developer" => ~response'.success /\ bugs' = bugs]_vars

\* C6: setBugStatus to open or in_progress on an existing bug succeeds for an admin,
\* succeeds for a developer only if the bug is assigned to that developer, and is
\* rejected for every tester.
C6_ReopenOnlyByAdminOrAssignee ==
    [][response'.op = "updateStatus" =>
       \A actor \in Actors : \A id \in BugIds : \A status \in {"open", "in_progress"} :
          UpdateStatus(id, status, actor) =>
              (response'.success <=>
                  \/ actor.role = "admin"
                  \/ actor.role = "developer" /\ getBugById(id).assigned_to = actor.id)]_vars

RemoveAt(s, k) == SubSeq(s, 1, k - 1) \o SubSeq(s, k + 1, Len(s))

\* C8: deleteBug is rejected for an actor that is not an admin, returns not-found to an
\* admin for an id that no bug has, and otherwise removes exactly the bug with that id
\* and leaves every other bug as it was.
C8_DeleteByAdminRemovesOne ==
    [][response'.op = "delete" =>
       \A actor \in Actors : \A id \in BugIds \cup {actor.id} :
          Delete(id, actor) =>
              /\ actor.role # "admin" => ~response'.success /\ bugs' = bugs
              /\ (actor.role = "admin" /\ ~HasBugId(id)) =>
                    response'.error = "Bug not found" /\ bugs' = bugs
              /\ (actor.role = "admin" /\ HasBugId(id)) =>
                    /\ response'.success
                    /\ \E k \in 1..Len(bugs) : bugs[k].id = id /\ bugs' = RemoveAt(bugs, k)
                    /\ \A i \in 1..Len(bugs') : bugs'[i].id # id]_vars

\* C8 witness: an admin has just deleted one bug and another bug is still stored
C8_Witness ==
    /\ response.op = "delete"
    /\ response.success
    /\ activity[1].action = "deleted"
    /\ bugs # <<>>
    /\ \A i \in 1..Len(bugs) : bugs[i].id # activity[1].bug_id

\* C9: deleteUser is rejected for an actor that is not an admin and for the actor's own
\* id; an admin deleting another stored user removes exactly that user, and deleteUser of
\* an id that is no longer stored returns 'User not found' and changes nothing.
C9_DeleteUserByAdminNotSelf ==
    [][response'.op = "deleteUser" =>
       \A actor \in Actors : \A id \in RegisteredIds :
          DeleteUser(id, actor) =>
              /\ (actor.role # "admin" \/ id = actor.id) =>
                    ~response'.success /\ users' = users
              /\ (actor.role = "admin" /\ id # actor.id /\ HasUserId(id)) =>
                    /\ response'.success
                    /\ \E k \in 1..Len(users) : users[k].id = id /\ users' = RemoveAt(users, k)
                    /\ \A i \in 1..Len(users') : users'[i].id # id
              /\ (actor.role = "admin" /\ id # actor.id /\ ~HasUserId(id)) =>
                    /\ response'.error = "User not found"
                    /\ UNCHANGED <<users, bugs, activity>>]_vars

\* the ids of the users that registered and are no longer stored
DeletedUserIds == RegisteredIds \ UserIds

\* C9 witness: a user has been deleted, and a later deleteUser has returned not-found
C9_Witness ==
    /\ response.op = "deleteUser"
    /\ response.error = "User not found"
    /\ DeletedUserIds # {}

UniqueIgnoringCase ==
    \A i \in 1..Len(users) : \A j \in 1..Len(users) :
        i # j =>
            /\ ToLowerCase(users[i].username) # ToLowerCase(users[j].username)
            /\ ToLowerCase(users[i].email) # ToLowerCase(users[j].email)

\* C10: no two stored users have usernames, or emails, that are equal ignoring case, and
\* a register call whose username or email equals a stored user's ignoring case fails and
\* adds no user.
C10_UniqueUsernamesAndEmails ==
    /\ UniqueIgnoringCase
    /\ [][/\ UniqueIgnoringCase'
          /\ \A r \in RegisterInputsCase :
                (response'.op = "register" /\ Register(r.username, r.email, r.password, r.role)) =>
                    ((\E i \in 1..Len(users) :
                         \/ ToLowerCase(users[i].username) = ToLowerCase(r.username)
                         \/ ToLowerCase(users[i].email) = ToLowerCase(r.email))
                       => ~response'.success /\ users' = users)]_vars

\* C10 witness: a registration has just been refused for an email that differs from a
\* stored one only in case (no email is offered twice in the same case with a free username)
C10_Witness ==
    /\ response.op = "register"
    /\ response.error = "Email already registered"
    /\ \E i \in 1..Len(users) : users[i].email = mailTes

\* an address of the form local@domain.tld: one @ with text before it, no white space,
\* and after the @ a dot with text on both sides
WellFormedEmail(e) ==
    LET ats == {i \in 1..Len(e) : e[i] = "@"}
    IN  /\ Cardinality(ats) = 1
        /\ \A i \in 1..Len(e) : e[i] # " "
        /\ \A a \in ats : a > 1 /\ \E j \in (a + 2)..(Len(e) - 1) : e[j] = "."

\* the registration is one that the validation must refuse
InvalidRegistration(r) ==
    \/ ~WellFormedEmail(r.email)
    \/ Len(r.password) < 6
    \/ Len(r.username) < 3
    \/ \E i \in 1..Len(r.username) :
          r.username[i] \notin UpperSet \cup LowerSet \cup DigitSet \cup {"_"}

\* C11: register fails when the email is not of the form local@domain.tld, when the
\* password has fewer than 6 characters, when the username has fewer than 3 characters
\* or holds a character other than a letter, digit or underscore; such a failed call
\* leaves the users, the activity log and the session as they were.
C11_InvalidRegistrationRefused ==
    [][response'.op = "register" =>
       \A r \in RegisterInputs \cup RegisterInputsInvalid :
          (InvalidRegistration(r) /\ Register(r.username, r.email, r.password, r.role)) =>
              /\ ~response'.success
              /\ UNCHANGED <<users, activity, currentUser, token>>]_vars

\* C11 witness: a badly formed email has just been refused while a user is signed in
C11_Witness ==
    /\ response.op = "register"
    /\ response.error = "Please enter a valid email address"
    /\ currentUser # <<>>
    /\ token # <<>>
    /\ users # <<>>

\* the number of characters from the first to the last that is not white space
TrimmedLen(s) ==
    LET core == {i \in 1..Len(s) : s[i] # " "}
    IN  IF core = {} THEN 0
        ELSE (CHOOSE i \in core : \A j \in core : j <= i)
               - (CHOOSE i \in core : \A j \in core : j >= i) + 1

\* t is s without the white space around it
IsTrimOf(t, s) ==
    /\ t = <<>> \/ (t[1] # " " /\ t[Len(t)] # " ")
    /\ \E i \in 0..Len(s) :
          /\ i + Len(t) <= Len(s)
          /\ \A k \in 1..i : s[k] = " "
          /\ \A k \in 1..Len(t) : s[i + k] = t[k]
          /\ \A k \in (i + Len(t) + 1)..Len(s) : s[k] = " "

\* C12: createBug rejects every input whose trimmed title has fewer than 3 characters
\* or whose trimmed description has fewer than 10; a rejected call adds no bug and no
\* activity entry; an accepted call stores the trimmed title and description.
C12_CreateValidatesTrimmed ==
    [][response'.op = "create" =>
       \A actor \in Actors : \A bugData \in CreateInputsTrim(actor) :
          CreateBug(bugData, actor) =>
              /\ (TrimmedLen(bugData.title) < 3 \/ TrimmedLen(bugData.description) < 10)
                    => ~response'.success
              /\ ~response'.success => UNCHANGED <<bugs, activity>>
              /\ response'.success =>
                    /\ Len(bugs') = Len(bugs) + 1
                    /\ IsTrimOf(bugs'[Len(bugs')].title, bugData.title)
                    /\ IsTrimOf(bugs'[Len(bugs')].description, bugData.description)]_vars

\* C12 witness: a padded title and description are stored without their padding, and
\* a description too short once trimmed has just been refused
C12_Witness ==
    /\ response.op = "create"
    /\ response.error = "Bug description must be at least 10 characters"
    /\ \E i \in 1..Len(bugs) :
          /\ bugs[i].title = <<"F", "i", "x">>
          /\ Len(bugs[i].description) = Len(descPadded) - 3

\* C13: the activity log never holds more than 100 entries and lists them newest
\* first; a call that writes to a log of fewer than 100 entries puts the new entry
\* in front and keeps every earlier entry, and a call that writes to a log of 100
\* entries puts the new entry in front and drops the oldest entry only
C13_LogCappedNewestFirst ==
    /\ [](/\ Len(activity) <= 100
          /\ \A i \in 1..Len(activity) - 1 :
                /\ activity[i].timestamp >= activity[i + 1].timestamp
                /\ activity[i].id > activity[i + 1].id)
    /\ [][activity' # activity =>
             /\ activity'[1].id >= nextId /\ activity'[1].timestamp = now
             /\ Len(activity) < 100 => Tail(activity') = activity
             /\ Len(activity) = 100 => Tail(activity') = SubSeq(activity, 1, 99)]_vars

\* C13 witness: the log is full, its oldest entry is no longer the registration it
\* began with, and its newest entry was written later than its oldest
C13_Witness ==
    /\ Len(activity) = 100
    /\ activity[100].action # "user_registered"
    /\ activity[1].timestamp > activity[100].timestamp
\* the step puts one entry in front of the log, and the entry names this caller and bug
LoggedOnce(actor, id) ==
    /\ Len(activity') = Len(activity) + 1
    /\ Tail(activity') = activity
    /\ activity'[1].user_id = actor.id
    /\ activity'[1].user_name = actor.username
    /\ activity'[1].bug_id = id

\* C14: every successful createBug, updateBug, setBugStatus, assignBug and deleteBug
\* appends exactly one activity log entry, which names the caller and the affected
\* bug, whether or not the call notifies anyone
C14_BugCallsLoggedOnce ==
    [][response'.success =>
       /\ response'.op = "create" =>
             \A actor \in Actors : \A bugData \in CreateInputs(actor) :
                CreateBug(bugData, actor) =>
                   /\ LoggedOnce(actor, bugs'[Len(bugs')].id)
                   /\ bugs'[Len(bugs')].id \notin BugIds
       /\ response'.op = "update" =>
             \A actor \in Actors : \A id \in BugIds : \A updates \in UpdateInputs(actor) :
                Update(id, updates, actor) => LoggedOnce(actor, id)
       /\ response'.op = "updateStatus" =>
             \A actor \in Actors : \A id \in BugIds : \A status \in Statuses :
                UpdateStatus(id, status, actor) => LoggedOnce(actor, id)
       /\ response'.op = "assign" =>
             \A actor \in Actors : \A id \in BugIds :
                \A developerId \in {NULL} \cup RegisteredIds :
                   Assign(id, developerId, actor) => LoggedOnce(actor, id)
       /\ response'.op = "delete" =>
             \A actor \in Actors : \A id \in BugIds :
                Delete(id, actor) => LoggedOnce(actor, id)]_vars

\* C14 witness: a status change that notified the bug's creator is the newest entry of
\* the log, under the name of the developer who made it
C14_Witness ==
    /\ response.op = "updateStatus"
    /\ response.success
    /\ notified # {}
    /\ Len(activity) >= 2
    /\ activity[1].action = "status_in_progress"
    /\ \E i \in 1..Len(users) :
          users[i].id = activity[1].user_id /\ users[i].role = "developer"
    /\ activity[1].bug_id \in BugIds
\* three parts, a payload that decodes to an object, and an expiry in it
WellFormedToken(t) == Len(t) = 3 /\ t[2].json = "object" /\ t[2].exp # <<>>

\* C15: verifyToken returns valid, with the user id of the payload, exactly for a
\* token of three parts whose payload decodes and carries an expiry that is not
\* earlier than the current time; a token with another number of parts, with a
\* payload that does not decode or with a payload without an expiry is invalid, and
\* so is an issued token more than 24 hours after its issue
C15_ValidIffWellFormedUnexpired ==
    token # <<>> =>
        LET t == token[1]
        IN  /\ verifyToken(t).valid <=> (WellFormedToken(t) /\ t[2].exp[1] >= now)
            /\ verifyToken(t).valid => verifyToken(t).userId = t[2].userId
            /\ ~WellFormedToken(t) => ~verifyToken(t).valid
            /\ (WellFormedToken(t) /\ t[2].iat # <<>> /\ t[2].exp[1] = t[2].iat[1] + TOKEN_TTL
                   /\ now > t[2].iat[1] + TOKEN_TTL) => ~verifyToken(t).valid
\* the stored token has expired: it is well formed and its expiry is before now
ExpiredToken(t) == WellFormedToken(t) /\ t[2].exp[1] < now

\* the stored token names a user that is not in the user collection
NamesNoUser(t) == t[2].userId = <<>> \/ ~HasUserId(t[2].userId[1])

\* C16: getCurrentUser fails when the session user or the token is missing, when the
\* stored token is expired or malformed, and when the token names a user that is no
\* longer stored; without a session it answers 'Not authenticated', in the expired and
\* deleted-user cases it removes the session user and the token, and otherwise it
\* returns the stored record of the user the token names
C16_GetCurrentUserFailsOrReturnsStored ==
    [][response'.op = "getCurrentUser" =>
         IF currentUser = <<>> \/ token = <<>>
         THEN /\ response'.error = "Not authenticated"
              /\ UNCHANGED <<currentUser, token>>
         ELSE /\ ~WellFormedToken(token[1]) => ~response'.success
              /\ (ExpiredToken(token[1])
                     \/ (WellFormedToken(token[1]) /\ NamesNoUser(token[1]))) =>
                       ~response'.success /\ currentUser' = <<>> /\ token' = <<>>
              /\ response'.success =>
                    /\ response'.data = getUserById(token[1][2].userId[1])
                    /\ UNCHANGED <<currentUser, token>>]_vars
\* the record carries no password credential: it has no password_hash, or a blank one
NoCredential(u) == "password_hash" \in DOMAIN u => u.password_hash = emptyHash

\* C17: the stored password credential is never exposed: the session snapshot carries
\* none, and no user record returned by register, login, getCurrentUser, getAll,
\* getDevelopers or getById carries one
C17_NoCredentialExposed ==
    /\ currentUser # <<>> => "password_hash" \notin DOMAIN currentUser[1]
    /\ ("data" \in DOMAIN response /\ response.op \in {"register", "login"}) =>
            NoCredential(response.data.user)
    /\ ("data" \in DOMAIN response /\ response.op \in {"getCurrentUser", "getById"}) =>
            NoCredential(response.data)
    /\ ("data" \in DOMAIN response /\ response.op \in {"getAll", "getDevelopers"}) =>
            \A i \in 1..Len(response.data) : NoCredential(response.data[i])
\* the stored users whose username is this one ignoring case and whose credential the
\* password verifies against
CredentialMatches(username, password) ==
    {i \in 1..Len(users) :
        /\ ToLowerCase(users[i].username) = ToLowerCase(username)
        /\ hashPassword(password) = users[i].password_hash}

\* C18: login succeeds exactly when a stored user's username equals the given one
\* ignoring case and the password verifies against that user's credential; a successful
\* login makes that user the session user with a token issued now, and a failed one
\* reports 'Invalid username or password' and leaves users, session and log unchanged
C18_LoginIffCredentialMatches ==
    [][response'.op = "login" =>
       \A c \in LoginInputs :
          Login(c.username, c.password) =>
             /\ response'.success <=> CredentialMatches(c.username, c.password) # {}
             /\ response'.success =>
                   \E i \in CredentialMatches(c.username, c.password) :
                      /\ currentUser' = <<safeUser(users[i])>>
                      /\ Len(token') = 1 /\ token' # token
                      /\ token'[1] = response'.data.token
                      /\ token'[1][2].userId = <<users[i].id>>
                      /\ token'[1][2].iat = <<now>>
                      /\ token'[1][2].exp = <<now + TOKEN_TTL>>
                      /\ UNCHANGED <<users, activity>>
             /\ ~response'.success =>
                   /\ response'.error = "Invalid username or password"
                   /\ UNCHANGED <<users, currentUser, token, activity>>]_vars

\* C18 witness: a login under a username written in another case than the stored one
\* has succeeded, and the session is that user's, with the token the login returned
C18_Witness ==
    /\ response.op = "login"
    /\ response.success
    /\ currentUser # <<>>
    /\ currentUser[1].username = nameDev
    /\ token = <<response.data.token>>
    /\ token[1][2].userId = <<currentUser[1].id>>
\* C19: from the empty store, registering a tester, an admin and the developer bob,
\* the tester creating a bug of high priority, the admin assigning it to bob and bob
\* setting it in progress and then closed all succeed, and the dashboard statistics
\* read afterwards report closed = 1, open = 0 and high = 1
C19_ScenarioSucceeds ==
    /\ [][response'.op \in {"register", "create", "assign", "updateStatus", "getStats"}
             => response'.success]_vars
    /\ []((response.op = "getStats" /\ Len(activity) = 7) =>
             /\ response.data.closed = 1
             /\ response.data.open = 0
             /\ response.data.high = 1)

\* C19 witness: the walk is complete, bob having closed the tester's bug that the admin
\* assigned to him, and the dashboard has been read
C19_Witness ==
    /\ response.op = "getStats"
    /\ Len(activity) = 7
    /\ activity[1].action = "status_closed"
    /\ activity[1].user_name = nameBob
    /\ activity[2].action = "status_in_progress"
    /\ activity[3].action = "assigned"
    /\ activity[4].action = "created"
    /\ bugs[1].assigned_to = activity[1].user_id
    /\ bugs[1].status = "closed"
\* C20: no call lets an exception escape to its caller: every call, also one whose
\* write to the store fails, ends with a result, and a result that is not a success
\* carries an error
C20_NoExceptionEscapes ==
    /\ "exception" \notin DOMAIN response
    /\ "success" \in DOMAIN response
    /\ ~response.success => response.error # ""
\* C21: startup on a store whose version marker is absent or is not the expected one
\* empties the users, the bugs and the activity log, removes the session user and
\* the token and sets the marker to the expected version; startup on a store with
\* the expected marker changes nothing, so a second startup after a first changes
\* nothing
C21_StartupResetsOnOtherVersion ==
    [][Startup =>
         /\ version # <<CURRENT_DB_VERSION>> =>
               /\ users' = <<>> /\ bugs' = <<>> /\ activity' = <<>>
               /\ currentUser' = <<>> /\ token' = <<>>
         /\ version = <<CURRENT_DB_VERSION>> =>
               UNCHANGED <<users, bugs, activity, currentUser, token>>
         /\ version' = <<CURRENT_DB_VERSION>>]_vars

\* C21 witness: startup has emptied a store that held users, a bug and a session
\* under the marker of an earlier release
C21_Witness ==
    /\ version = <<CURRENT_DB_VERSION>>
    /\ users = <<>> /\ bugs = <<>> /\ activity = <<>>
    /\ currentUser = <<>> /\ token = <<>>
    /\ nextId = 9
\* a session is active: the session user and a token are stored and the token verifies
SessionActive ==
    currentUser # <<>> /\ token # <<>> /\ verifyToken(token[1]).valid

\* a call of one of the endpoints the interface table marks as requiring authentication
GatedCall ==
    \/ \E actor \in Actors : BugCallBy(actor)
    \/ \E actor \in Actors : \E id \in RegisteredIds : DeleteUser(id, actor)
    \/ GetAll
    \/ GetDevelopers
    \/ GetStats

\* C22: a call of createBug, updateBug, setBugStatus, assignBug, deleteBug, listUsers,
\* listDevelopers, deleteUser or the dashboard statistics made while no session is
\* active, or after the session token has expired, fails and leaves the users, the
\* bugs and the activity log unchanged
C22_GatedCallsNeedSession ==
    [][(~SessionActive /\ GatedCall) =>
          ~response'.success /\ UNCHANGED <<users, bugs, activity>>]_vars
\* C23: a successful updateBug, setBugStatus or assignBug, whatever fields the caller
\* supplies, leaves every bug's created_by and id as they were before the call
C23_CreatorAndIdKept ==
    [][(response'.op \in {"update", "updateStatus", "assign"} /\ response'.success) =>
          /\ Len(bugs') = Len(bugs)
          /\ \A i \in 1..Len(bugs) :
                /\ bugs'[i].created_by = bugs[i].created_by
                /\ bugs'[i].id = bugs[i].id]_vars
\* C24: updateBug by a user who may edit the bug succeeds also when the supplied title
\* is shorter than 3 characters or the supplied description shorter than 10, and stores
\* the supplied title and description as they are, untrimmed
C24_UpdateStoresAsSupplied ==
    [][response'.op = "update" =>
       \A actor \in Actors : \A id \in BugIds : \A updates \in EditInputs(getBugById(id)) :
          (/\ Update(id, updates, actor)
           /\ (actor.role # "tester" \/ getBugById(id).created_by = actor.id)) =>
             /\ response'.success
             /\ "title" \in DOMAIN updates =>
                    bugs'[findIndex(id)].title = updates.title
             /\ "description" \in DOMAIN updates =>
                    bugs'[findIndex(id)].description = updates.description]_vars

\* C24 witness: after a successful update a stored bug has a title that createBug
\* refuses, kept with the spaces around it
C24_Witness ==
    /\ response.op = "update"
    /\ response.success
    /\ \E i \in 1..Len(bugs) :
          /\ bugs[i].title = titleShort
          /\ Len(Trim(bugs[i].title)) < 3
          /\ createBugError(bugs[i]) # ""
\* the call has succeeded and stamped the bug with the clock, or failed and left the
\* bugs as they were
StampedOrRefused(id) ==
    IF response'.success
    THEN bugs'[findIndex(id)].updated_at = now
    ELSE bugs' = bugs

\* C25: every successful updateBug, setBugStatus and assignBug sets the bug's
\* updated_at to the clock value of the call, also when the supplied fields hold an
\* updated_at; a failed call leaves it unchanged; no bug's updated_at ever decreases
C25_UpdatedAtIsClock ==
    [][/\ Len(bugs') = Len(bugs) =>
            \A i \in 1..Len(bugs) : bugs'[i].updated_at >= bugs[i].updated_at
       /\ response'.op = "update" =>
            \A actor \in Actors : \A id \in BugIds \cup {7} :
               \A updates \in (IF HasBugId(id) THEN EditInputs(getBugById(id))
                                                ELSE {[title |-> titleNew]}) :
                  Update(id, updates, actor) =>
                     IF HasBugId(id) THEN StampedOrRefused(id)
                     ELSE ~response'.success /\ bugs' = bugs
       /\ response'.op = "updateStatus" =>
            \A actor \in Actors : \A id \in BugIds : \A status \in Statuses :
               UpdateStatus(id, status, actor) => StampedOrRefused(id)
       /\ response'.op = "assign" =>
            \A actor \in Actors : \A id \in BugIds :
               \A developerId \in {NULL} \cup UserIds :
                  Assign(id, developerId, actor) => StampedOrRefused(id)]_vars

\* C25 witness: an edit made after the clock moved has stamped the bug later than its
\* creation, and a later call on the bug has been refused
C25_Witness ==
    /\ response.op \in {"updateStatus", "assign"}
    /\ ~response.success
    /\ activity[1].action = "updated"
    /\ \E i \in 1..Len(bugs) :
          /\ bugs[i].updated_at > bugs[i].created_at
          /\ bugs[i].updated_at = activity[1].timestamp
\* the stored admins other than this user
OtherAdmins(id) ==
    {users[i].id : i \in {j \in 1..Len(users) : users[j].role = "admin" /\ users[j].id # id}}

\* C26: a successful createBug queues a creation notification for exactly the stored
\* admins other than the creator when the priority is high or critical, and none when
\* it is low or medium; the delivery of a notification, failed or not, changes neither
\* the result of the call nor the stored bugs
C26_CreateNotifiesOtherAdmins ==
    /\ [][response'.op = "create" =>
           \A actor \in Actors : \A bugData \in CreateInputsPriority(actor) :
              CreateBug(bugData, actor) =>
                 IF response'.success /\ bugData.priority \in {"high", "critical"}
                 THEN /\ {n.to : n \in notified'} = OtherAdmins(bugData.created_by)
                      /\ \A n \in notified' : n.kind = "created"
                 ELSE notified' = {}]_vars
    /\ [][(\E n \in notified : \E ok \in BOOLEAN : Deliver(n, ok)) =>
             UNCHANGED <<response, users, bugs, activity>>]_vars

\* C26 witness: with two admins stored, one of them has reported a bug; only the other
\* was to be notified, and the delivery failed while the call's result stayed a success
C26_Witness ==
    /\ response.op = "create"
    /\ response.success
    /\ Cardinality(OtherAdmins(NULL)) = 2
    /\ activity[1].action = "created"
    /\ Cardinality(notified) = 1
    /\ \A n \in notified :
          /\ n.to \in OtherAdmins(activity[1].user_id)
          /\ "sent" \in DOMAIN n
          /\ ~n.sent
\* the bug satisfies the filters as the filter bar words them: the option Unassigned
\* asks for the bugs without an assignee
Wanted(b, filters) ==
    /\ filters.status # "all" => b.status = filters.status
    /\ filters.priority # "all" => b.priority = filters.priority
    /\ ~filters.assigned_to.all =>
          b.assigned_to = (IF filters.assigned_to.id = <<>> THEN NULL
                           ELSE filters.assigned_to.id[1])
    /\ filters.search # <<>> =>
          \/ Includes(ToLowerCase(b.title), ToLowerCase(filters.search))
          \/ Includes(ToLowerCase(b.description), ToLowerCase(filters.search))

\* C27: bugsApi.getAll(filters) returns exactly the stored bugs that satisfy every
\* supplied filter, the filter for unassigned bugs included, ordered by updated_at,
\* newest first, and does not modify the store
C27_ListReturnsWanted ==
    [][response'.op = "getAllBugs" =>
       \A filters \in ListFilters :
          GetAllBugs(filters) =>
             /\ Range(response'.data) = {b \in Range(bugs) : Wanted(b, filters)}
             /\ Len(response'.data) = Cardinality(Range(response'.data))
             /\ \A i \in 1..(Len(response'.data) - 1) :
                   response'.data[i].updated_at >= response'.data[i + 1].updated_at
             /\ UNCHANGED <<users, bugs, activity>>]_vars
\* what the call whose timer fires decides on the store of that moment
AllowedNow(call) ==
    IF call.op = "updateStatus"
    THEN /\ \E i \in 1..Len(bugs) : bugs[i].id = call.id
         /\ call.status = "closed" =>
               /\ call.actor.role # "tester"
               /\ call.actor.role = "developer" =>
                     \E i \in 1..Len(bugs) :
                        bugs[i].id = call.id /\ bugs[i].assigned_to = call.actor.id
    ELSE /\ call.actor.role = "admin"
         /\ \E i \in 1..Len(bugs) : bugs[i].id = call.id
         /\ call.developerId # NULL =>
               \E i \in 1..Len(users) :
                  users[i].id = call.developerId /\ users[i].role = "developer"

\* the bug as the call writes it over the bug the store holds at that moment
WrittenNow(bug, call) ==
    IF call.op = "updateStatus"
    THEN [bug EXCEPT !.status = call.status, !.updated_at = now]
    ELSE [bug EXCEPT !.assigned_to = call.developerId, !.updated_at = now]

\* C28: a call that is made registers its timer and touches nothing; the response,
\* the bugs and the log change only when the timer at the head of the queue fires,
\* and in that one step the call checks existence and permission against the store
\* of that moment, writes the bug over that store and appends one log entry, or
\* fails and changes nothing: the store is the one of the calls run one after the
\* other in the order their timers fire
C28_CallsRunInTimerOrder ==
    [][/\ Len(inflight') > Len(inflight) =>
             UNCHANGED <<users, bugs, activity, response, now>>
       /\ (response' # response \/ <<users, bugs, activity>>' # <<users, bugs, activity>>) =>
             /\ inflight # <<>>
             /\ Head(inflight).due <= now
             /\ inflight' = Tail(inflight)
       /\ (inflight # <<>> /\ inflight' = Tail(inflight)) =>
             LET call == Head(inflight).call
             IN  /\ response'.op = call.op
                 /\ response'.success = AllowedNow(call)
                 /\ users' = users
                 /\ IF AllowedNow(call)
                    THEN /\ Len(bugs') = Len(bugs)
                         /\ \A i \in 1..Len(bugs) :
                               bugs'[i] = IF bugs[i].id = call.id
                                          THEN WrittenNow(bugs[i], call)
                                          ELSE bugs[i]
                         /\ Len(activity') = Len(activity) + 1
                         /\ Tail(activity') = activity
                         /\ activity'[1].user_id = call.actor.id
                         /\ activity'[1].bug_id = call.id
                    ELSE UNCHANGED <<bugs, activity>>]_vars

\* the developer called the close at time 0, when the bug was unassigned, the admin
\* called the assignment at time 0 too; the assignment's timer fired first and the
\* close succeeded on the bug as assigned
C28_Witness ==
    /\ now = UPDATE_DELAY
    /\ inflight = <<>>
    /\ response = ApiResponse("updateStatus", TRUE, "")
    /\ activity[1].action = "status_closed"
    /\ activity[1].user_id = 4
    /\ activity[2].action = "assigned"
    /\ bugs[1].status = "closed"
    /\ bugs[1].assigned_to = 4
    /\ bugs[1].updated_at = UPDATE_DELAY
\* C29: a call that returns success = false (validation failure, not found,
\* permission rejection, invalid developer, invalid credentials) leaves the users,
\* the bugs and the activity log as they were before the call
C29_RefusedCallsKeepTheStore ==
    [][("success" \in DOMAIN response' /\ ~response'.success) =>
          UNCHANGED <<users, bugs, activity>>]_vars

\* a developer is refused the deletion of a bug after the store has grown
C29_Witness ==
    /\ response = ApiResponse("delete", FALSE, "Only admins can delete bugs")
    /\ Len(activity) > 3
    /\ HasBugId(7)
\* C30: the stored session user and the stored token are both present or both
\* absent, and a stored token carries the id of the stored session user; a successful
\* register or login stores the session of the user it returns in place of the
\* previous one, so at most one session exists
C30_OneSessionUserAndToken ==
    /\ [](/\ (currentUser = <<>>) <=> (token = <<>>)
          /\ Len(currentUser) <= 1
          /\ Len(token) <= 1
          /\ currentUser # <<>> => token[1][2].userId = <<currentUser[1].id>>)
    /\ [][(response'.op \in {"register", "login"} /\ response' # response
             /\ response'.success) =>
             /\ currentUser' = <<safeUser(response'.data.user)>>
             /\ token' = <<response'.data.token>>
             /\ token'[1][2].userId = <<response'.data.user.id>>]_vars

\* the admin signed in over the session of the developer
C30_Witness ==
    /\ response.op = "login"
    /\ response.success
    /\ currentUser # <<>>
    /\ currentUser[1].id = 1
    /\ token[1][2].userId = <<1>>
    /\ nextId = 10
====
